---------------------------- MODULE Spec2Model ----------------------------
(***************************************************************************)
(* Model of src/src/pluto_vita49_streamer.c: the VITA49 codec, the MTU     *)
(* sizer, the subscriber registry, the configuration store and the         *)
(* control / streaming threads.                                            *)
(*                                                                         *)
(* Representation of C values.  TLC integers are 32-bit signed, so wide C  *)
(* integers are sequences of 4-bit digits (nibbles), most significant      *)
(* first: uint64_t / int64_t = 16 nibbles, uint32_t = 8 nibbles.  A byte   *)
(* is an integer 0..255 and a packet is a sequence of bytes (1-based, so   *)
(* C offset k is index k+1).  The target is the Pluto's 32-bit             *)
(* little-endian ARM (line 15): size_t is 32 bits, htonl swaps bytes.      *)
(* gain_db is a C double; the model holds it as an integer number of       *)
(* 1/(128*GainSub) dB steps.                                               *)
(***************************************************************************)
EXTENDS Integers, Sequences, FiniteSets, TLC

VARIABLES
    h,                     \* harness state of the pure-function specifications
    mutex,                 \* owner of g_sdr_config.mutex, g_subscribers_mutex, g_stats.mutex
    main,                  \* main after line 916: position, control socket, IIO context
    env,                   \* what the surroundings may do: source addresses, datagrams, ...
    main_mtu,              \* main's mtu (line 822), after argument parsing
    g_samples_per_packet,  \* line 68, as set by main (line 846)
    g_running,             \* line 66
    g_sdr_config,          \* lines 80-96
    g_subscribers,         \* lines 76-77: the first g_subscriber_count entries
    g_stats,               \* lines 99-123: the fields the threads read back
    ctl,                   \* control_thread: position and locals
    str,                   \* streaming_thread: position and locals
    rxbuf,                 \* the capture buffer handle of streaming_thread
    fe,                    \* what configure_sdr last wrote to the front-end
    sent,                  \* the last call of broadcast_to_subscribers
    hist                   \* history of the run, for stating properties

progVars == <<mutex, main, env, main_mtu, g_samples_per_packet, g_running, g_sdr_config, g_subscribers,
              g_stats, ctl, str, rxbuf, fe, sent, hist>>

vars == <<h, mutex, main, env, main_mtu, g_samples_per_packet, g_running, g_sdr_config, g_subscribers,
          g_stats, ctl, str, rxbuf, fe, sent, hist>>

-----------------------------------------------------------------------------
(* Program constants (lines 38-63)                                         *)

DEFAULT_BUFFER_SIZE == 16384
CONTEXT_INTERVAL == 100
MAX_SUBSCRIBERS == 16
DATA_PORT == 4991
MTU_STANDARD == 1500
MTU_JUMBO == 9000
IP_HEADER_SIZE == 20
UDP_HEADER_SIZE == 8
VITA49_HEADER_SIZE == 20
VITA49_TRAILER_SIZE == 4
VITA49_OVERHEAD == VITA49_HEADER_SIZE + VITA49_TRAILER_SIZE
IP_UDP_OVERHEAD == IP_HEADER_SIZE + UDP_HEADER_SIZE
MAX_PACKET_BUFFER == 16384
VRT_PKT_TYPE_DATA == 1
VRT_PKT_TYPE_CONTEXT == 4
VRT_TSI_UTC == 1
VRT_TSF_PICOSECONDS == 2

(* Resolution of the model's gain values: GainSub steps per 1/128 dB.      *)
GainSub == 4

-----------------------------------------------------------------------------
(* Fixed-width integers as nibble sequences                                *)

RECURSIVE NatToNibs(_, _)
NatToNibs(n, k) ==
    IF k = 0 THEN <<>> ELSE Append(NatToNibs(n \div 16, k - 1), n % 16)

RECURSIVE NibsToNat(_)
NibsToNat(x) ==
    IF x = <<>> THEN 0
    ELSE 16 * NibsToNat(SubSeq(x, 1, Len(x) - 1)) + x[Len(x)]

Zeros(k) == [i \in 1..k |-> 0]

(* zero-extension of a uint32_t to 64 bits: (int64_t)bw                    *)
ZeroExt64(x) == Zeros(16 - Len(x)) \o x

(* (uint32_t)v of a 64-bit value: the low 32 bits                          *)
Low32(x) == SubSeq(x, 9, 16)

(* a shift by 16 bits in place of 20 *)
Shl16(x) == SubSeq(x, 5, 16) \o Zeros(4)

(* x * (1 << 20) in 64 bits; x << 20                                       *)
Shl20(x) == SubSeq(x, 6, 16) \o Zeros(5)

(* logical x >> 20                                                         *)
Shr20(x) == Zeros(5) \o SubSeq(x, 1, 11)

IsNeg(x) == x[1] >= 8

(* two's complement negation                                               *)
RECURSIVE AddOne(_)
AddOne(x) ==
    IF x = <<>> THEN <<>>
    ELSE IF x[Len(x)] < 15
         THEN SubSeq(x, 1, Len(x) - 1) \o <<x[Len(x)] + 1>>
         ELSE AddOne(SubSeq(x, 1, Len(x) - 1)) \o <<0>>

Neg(x) == AddOne([i \in 1..Len(x) |-> 15 - x[i]])

(* int64_t x / (1 << 20): C division truncates toward zero                 *)
SDivPow20(x) == IF IsNeg(x) THEN Neg(Shr20(Neg(x))) ELSE Shr20(x)

(* bit b (0 = least significant) of a nibble sequence                      *)
Pow2(k) == IF k = 0 THEN 1 ELSE IF k = 1 THEN 2 ELSE IF k = 2 THEN 4 ELSE 8
BitSet(x, b) == (x[Len(x) - (b \div 4)] \div Pow2(b % 4)) % 2 = 1

(* big-endian bytes of a value, and back: htonl / htonll followed by       *)
(* memcpy on the little-endian target, ntohl of a load                     *)
htonBytes(x) == [i \in 1..(Len(x) \div 2) |-> 16 * x[2 * i - 1] + x[2 * i]]

ntohNibs(b) ==
    [i \in 1..(2 * Len(b)) |->
        IF i % 2 = 1 THEN b[(i + 1) \div 2] \div 16 ELSE b[i \div 2] % 16]

(* int16_t <-> its 16-bit pattern                                          *)
Int16Bits(k) == NatToNibs(IF k < 0 THEN k + 65536 ELSE k, 4)
BitsInt16(x) == IF NibsToNat(x) >= 32768 THEN NibsToNat(x) - 65536 ELSE NibsToNat(x)

(* truncation toward zero of a / b, b > 0: a double-to-integer conversion  *)
TruncDiv(a, b) == IF a >= 0 THEN a \div b ELSE -((-a) \div b)

(* rate * 0.8 converted to uint32_t: floor(4 * rate / 5); the double       *)
(* product of a 32-bit integer and 0.8 truncates to exactly this value     *)
RECURSIVE MulSmallC(_, _, _)
MulSmallC(x, m, carry) ==
    IF x = <<>> THEN <<carry>>
    ELSE MulSmallC(SubSeq(x, 1, Len(x) - 1), m, (x[Len(x)] * m + carry) \div 16)
             \o <<(x[Len(x)] * m + carry) % 16>>

RECURSIVE DivSmallR(_, _, _)
DivSmallR(x, d, rem) ==
    IF x = <<>> THEN <<>>
    ELSE <<(rem * 16 + x[1]) \div d>>
             \o DivSmallR(SubSeq(x, 2, Len(x)), d, (rem * 16 + x[1]) % d)

Times08(rate) == SubSeq(DivSmallR(MulSmallC(rate, 4, 0), 5, 0), 2, Len(rate) + 1)


(* size_t arithmetic: 32-bit unsigned, wrapping                            *)
RECURSIVE AddNibsC(_, _, _)
AddNibsC(x, y, carry) ==
    IF x = <<>> THEN <<>>
    ELSE AddNibsC(SubSeq(x, 1, Len(x) - 1), SubSeq(y, 1, Len(y) - 1),
                  (x[Len(x)] + y[Len(y)] + carry) \div 16)
             \o <<(x[Len(x)] + y[Len(y)] + carry) % 16>>

SizeT(n) == IF n >= 0 THEN NatToNibs(n, 8) ELSE Neg(NatToNibs(-n, 8))
SubSizeT(x, y) == AddNibsC(x, Neg(y), 0)
DivSizeT(x, d) == DivSmallR(x, d, 0)
MulSizeT(x, m) == SubSeq(MulSmallC(x, m, 0), 2, Len(x) + 1)
AddSizeT(x, y) == AddNibsC(x, y, 0)

(* x > y for two unsigned values of the same width                         *)
RECURSIVE GtNibs(_, _)
GtNibs(x, y) ==
    IF x = <<>> THEN FALSE
    ELSE IF x[1] # y[1] THEN x[1] > y[1]
    ELSE GtNibs(SubSeq(x, 2, Len(x)), SubSeq(y, 2, Len(y)))

Hex64(d) == Zeros(16 - Len(d)) \o d
Hex32(d) == Zeros(8 - Len(d)) \o d

-----------------------------------------------------------------------------
(* Defaults (lines 38-40, 89-96)                                           *)

\* 2400000000
DEFAULT_FREQ_HZ == Hex64(<<8, 15, 0, 13, 1, 8, 0, 0>>)
DEFAULT_RATE_HZ == NatToNibs(30000000, 8)
DEFAULT_GAIN_DB == 20 * 128 * GainSub

InitialConfig ==
    [center_freq_hz |-> DEFAULT_FREQ_HZ,
     sample_rate_hz |-> DEFAULT_RATE_HZ,
     bandwidth_hz   |-> Times08(DEFAULT_RATE_HZ),
     gain_db        |-> DEFAULT_GAIN_DB,
     config_changed |-> FALSE]

(* get_timestamp_us (lines 167-171): one reading of the wall clock, as     *)
(* seconds and microseconds                                                *)
ClockReading == [sec |-> 1700000000, usec |-> 250]

-----------------------------------------------------------------------------
(* VITA49 codec                                                            *)

(* the five context fields the encoder emits, as CIF bit numbers           *)
CIF_BANDWIDTH == 29
CIF_FREQUENCY == 27
CIF_GAIN == 23
CIF_SAMPLE_RATE == 21
CIF_STATE_EVENT == 19

(* first word of a packet header (lines 340-344, 400-406)                  *)
HeaderWord(type, trailer, count, total_words) ==
    NatToNibs(type * 268435456 + (IF trailer THEN 67108864 ELSE 0)
                + VRT_TSI_UTC * 4194304 + VRT_TSF_PICOSECONDS * 1048576
                + (count % 16) * 65536 + (total_words % 65536), 8)

(* stream id, integer and fractional timestamp words (lines 346-349)       *)
HeaderTail(ts) ==
    htonBytes(NatToNibs(16777216, 8)) \o htonBytes(NatToNibs(ts.sec, 8))
        \o htonBytes(NatToNibs(ts.usec * 1000000, 16))

(* state/event word (lines 314-321): bit 31 calibrated time, bit 19        *)
(* overrange, bit 18 sample loss                                           *)
StateEvent(underflows, overflows) ==
    <<8, 0, 0, (IF overflows > 0 THEN 8 ELSE 0) + (IF underflows > 0 THEN 4 ELSE 0),
      0, 0, 0, 0>>

(* gain_fixed = (int16_t)(gain * 128)                                      *)
GainFixed(gain) == TruncDiv(gain, GainSub)

(* the CIF word the encoder writes (lines 265-270)                         *)
EncoderCif ==
    NatToNibs(536870912 + 134217728 + 8388608 + 2097152 + 524288, 8)

(* encode_context_packet: snap is the (freq, rate, bw, gain) snapshot      *)
(* taken under the configuration mutex, underflows / overflows the values  *)
(* read under the statistics mutex.  Returns the bytes written; *len is    *)
(* their number.                                                           *)
encode_context_packet(snap, underflows, overflows, ts) ==
    LET bw_fixed   == Shl20(ZeroExt64(snap.bandwidth_hz))
        freq_fixed == Shl20(snap.center_freq_hz)
        rate_fixed == Shl20(ZeroExt64(snap.sample_rate_hz))
        gain_fixed == GainFixed(snap.gain_db)
        payload    == htonBytes(bw_fixed)
                        \o htonBytes(freq_fixed)
                        \o htonBytes(Int16Bits(gain_fixed)) \o <<0, 0>>
                        \o htonBytes(rate_fixed)
                        \o htonBytes(StateEvent(underflows, overflows))
        total_words == 1 + 1 + 1 + 2 + 1 + (Len(payload) \div 4)
    IN  htonBytes(HeaderWord(VRT_PKT_TYPE_CONTEXT, FALSE, 0, total_words))
            \o HeaderTail(ts) \o htonBytes(EncoderCif) \o payload

(* ntohl(*(uint32_t *)(buf + off)): off is the C byte offset               *)
Load32(buf, off) == ntohNibs(SubSeq(buf, off + 1, off + 4))
Load16(buf, off) == ntohNibs(SubSeq(buf, off + 1, off + 2))

(* a decoder that takes the sample rate before the gain *)
parse_context_packet_rate_first(buf, len, freq0, rate0, gain0) ==
    IF len < 28 THEN [rc |-> -1, freq_hz |-> freq0, rate_hz |-> rate0, gain_db |-> gain0]
    ELSE
    LET cif == Load32(buf, 20)
        p0  == 24
        p1  == IF BitSet(cif, CIF_BANDWIDTH) THEN p0 + 8 ELSE p0
        freq == IF BitSet(cif, CIF_FREQUENCY)
                THEN SDivPow20(Load32(buf, p1) \o Load32(buf, p1 + 4))
                ELSE freq0
        p2  == IF BitSet(cif, CIF_FREQUENCY) THEN p1 + 8 ELSE p1
        rate == IF BitSet(cif, CIF_SAMPLE_RATE)
                THEN Low32(SDivPow20(Load32(buf, p2) \o Load32(buf, p2 + 4)))
                ELSE rate0
        p3  == IF BitSet(cif, CIF_SAMPLE_RATE) THEN p2 + 8 ELSE p2
        gain == IF BitSet(cif, CIF_GAIN)
                THEN BitsInt16(Load16(buf, p3)) * GainSub
                ELSE gain0
    IN  [rc |-> 0, freq_hz |-> freq, rate_hz |-> rate, gain_db |-> gain]

(* parse_context_packet (lines 418-468).  buf is the receive buffer, len   *)
(* the datagram's length; freq0, rate0, gain0 are the values the output    *)
(* parameters hold on entry.  rc = -1 leaves them untouched.               *)
parse_context_packet(buf, len, freq0, rate0, gain0) ==
    IF len < 28 THEN [rc |-> -1, freq_hz |-> freq0, rate_hz |-> rate0, gain_db |-> gain0]
    ELSE
    LET cif == Load32(buf, 20)
        p0  == 24
        p1  == IF BitSet(cif, CIF_BANDWIDTH) THEN p0 + 8 ELSE p0
        freq == IF BitSet(cif, CIF_FREQUENCY)
                THEN SDivPow20(Load32(buf, p1) \o Load32(buf, p1 + 4))
                ELSE freq0
        p2  == IF BitSet(cif, CIF_FREQUENCY) THEN p1 + 8 ELSE p1
        gain == IF BitSet(cif, CIF_GAIN)
                THEN BitsInt16(Load16(buf, p2)) * GainSub
                ELSE gain0
        p3  == IF BitSet(cif, CIF_GAIN) THEN p2 + 4 ELSE p2
        rate == IF BitSet(cif, CIF_SAMPLE_RATE)
                THEN Low32(SDivPow20(Load32(buf, p3) \o Load32(buf, p3 + 4)))
                ELSE rate0
    IN  [rc |-> 0, freq_hz |-> freq, rate_hz |-> rate, gain_db |-> gain]



-----------------------------------------------------------------------------
(* MTU sizer (lines 174-189) and main's use of it (lines 822-866)          *)

(* mtu is a size_t; the result is a size_t                                 *)
calculate_optimal_samples_per_packet(mtu) ==
    LET available_bytes == SubSizeT(SubSizeT(mtu, SizeT(IP_UDP_OVERHEAD)),
                                    SizeT(VITA49_OVERHEAD))
        sample_bytes    == 2 * 2
        max_samples     == DivSizeT(available_bytes, sample_bytes)
        aligned_samples == MulSizeT(DivSizeT(max_samples, 2), 2)
    IN  aligned_samples

(* main, lines 846-866: the sizes it derives and whether it warns          *)
main_packet_sizes(mtu) ==
    LET spp                 == calculate_optimal_samples_per_packet(mtu)
        packet_payload      == MulSizeT(spp, 2 * 2)
        total_vita49_packet == AddSizeT(packet_payload, SizeT(VITA49_OVERHEAD))
        total_udp_datagram  == AddSizeT(total_vita49_packet, SizeT(IP_UDP_OVERHEAD))
    IN  [g_samples_per_packet |-> spp,
         total_udp_datagram   |-> total_udp_datagram,
         warns                |-> GtNibs(total_udp_datagram, mtu)]


-----------------------------------------------------------------------------
(* Data packets (lines 356-415).  A packet buffer is held as its header    *)
(* bytes (`head`: for a context packet, all of its bytes), the number of   *)
(* IQ payload bytes that follow, and the trailer bytes; the sample values  *)
(* themselves are not modelled.                                            *)

EmptyPacketBuf == [head |-> <<>>, iq_bytes |-> 0, tail |-> <<>>]

ContextBuf(bytes) == [head |-> bytes, iq_bytes |-> 0, tail |-> <<>>]

(* an encoder that steps the counter by two *)
encode_data_packet_skip(buf, num_samples, packet_count, ts) ==
    LET required_size == VITA49_HEADER_SIZE + (num_samples * 2 * 2) + 4
        payload_bytes == num_samples * 2 * 2
    IN  IF required_size > MAX_PACKET_BUFFER
        THEN [buf |-> buf, len |-> 0, packet_count |-> packet_count]
        ELSE [buf |-> [head |-> htonBytes(HeaderWord(VRT_PKT_TYPE_DATA, TRUE, packet_count,
                                                     6 + (payload_bytes \div 4)))
                                    \o HeaderTail(ts),
                       iq_bytes |-> payload_bytes,
                       tail |-> htonBytes(NatToNibs(1073741824, 8))],
              len |-> VITA49_HEADER_SIZE + payload_bytes + 4,
              packet_count |-> (packet_count + 2) % 16]

(* encode_data_packet: buf is the buffer's content on entry; the result    *)
(* holds the buffer's content, *len and *packet_count on return            *)
encode_data_packet(buf, num_samples, packet_count, ts) ==
    LET required_size == VITA49_HEADER_SIZE + (num_samples * 2 * 2) + 4
    IN  IF required_size > MAX_PACKET_BUFFER
        THEN [buf |-> buf, len |-> 0, packet_count |-> packet_count]
        ELSE
        LET payload_raw   == num_samples * 2 * 2
            padding       == (4 - (payload_raw % 4)) % 4
            payload_bytes == payload_raw + padding
            total_words   == 1 + 1 + 1 + 2 + (payload_bytes \div 4) + 1
        IN  [buf |-> [head |-> htonBytes(HeaderWord(VRT_PKT_TYPE_DATA, TRUE,
                                                    packet_count, total_words))
                                   \o HeaderTail(ts),
                      iq_bytes |-> payload_bytes,
                      tail |-> htonBytes(NatToNibs(1073741824, 8))],
             len |-> VITA49_HEADER_SIZE + payload_bytes + 4,
             packet_count |-> (packet_count + 1) % 16]

(* header fields of a packet buffer, as a receiver reads them              *)
PacketType(buf) == buf.head[1] \div 16
PacketCounter(buf) == buf.head[2] % 16
TotalWords(buf) == buf.head[3] * 256 + buf.head[4]

(* chunk_size of the packetize loop (lines 732-733)                        *)
ChunkSize(offset, num_samples) ==
    IF offset + g_samples_per_packet > num_samples
    THEN num_samples - offset ELSE g_samples_per_packet

-----------------------------------------------------------------------------
(* Subscriber registry (lines 199-238)                                     *)

(* add_subscriber without the capacity test of line 213 *)
add_subscriber_uncapped(subs, addr) ==
    IF \E i \in 1..Len(subs) :
          subs[i].active /\ subs[i].addr = addr.addr /\ subs[i].port = addr.port
    THEN subs
    ELSE Append(subs, [addr |-> addr.addr, port |-> addr.port, active |-> TRUE])

(* add_subscriber without the duplicate test of lines 203-210 *)
add_subscriber_unchecked(subs, addr) ==
    IF Len(subs) < MAX_SUBSCRIBERS
    THEN Append(subs, [addr |-> addr.addr, port |-> addr.port, active |-> TRUE])
    ELSE subs

(* the test of lines 203-210 *)
IsEnrolled(subs, a, port) ==
    \E i \in 1..Len(subs) : subs[i].active /\ subs[i].addr = a /\ subs[i].port = port

add_subscriber(subs, addr) ==
    IF IsEnrolled(subs, addr.addr, addr.port)
    THEN subs
    ELSE IF Len(subs) < MAX_SUBSCRIBERS
         THEN Append(subs, [addr |-> addr.addr, port |-> addr.port, active |-> TRUE])
         ELSE subs

(* the destinations of the sendto calls of one broadcast, in order         *)
IsActive(e) == e.active

broadcast_to_subscribers(subs) ==
    LET act == SelectSeq(subs, IsActive)
    IN  [i \in 1..Len(act) |-> [addr |-> act[i].addr, port |-> act[i].port]]

-----------------------------------------------------------------------------
(* configure_sdr (lines 769-817): the attribute values it writes, read     *)
(* from the store under the configuration mutex.  "%.1f" rounds the gain   *)
(* to a tenth of a dB, ties to even.                                       *)

RoundTenths(g) ==
    LET d == 128 * GainSub
        a == IF g >= 0 THEN g ELSE -g
        q == (10 * a) \div d
        r == (10 * a) % d
        t == IF 2 * r > d THEN q + 1
             ELSE IF 2 * r = d THEN q + (q % 2) ELSE q
    IN  IF g >= 0 THEN t ELSE -t

ConfigureValues(cfg) ==
    [frequency          |-> cfg.center_freq_hz,
     sampling_frequency |-> cfg.sample_rate_hz,
     rf_bandwidth       |-> cfg.bandwidth_hz,
     hardwaregain       |-> RoundTenths(cfg.gain_db),
     gain_control_mode  |-> "manual"]

Unconfigured ==
    [frequency |-> Zeros(16), sampling_frequency |-> Zeros(8),
     rf_bandwidth |-> Zeros(8), hardwaregain |-> 0, gain_control_mode |-> "unset"]

-----------------------------------------------------------------------------
(* control_thread (lines 471-562)                                          *)

(* the first 56 bytes of buf[4096] (line 473), which is not initialised:   *)
(* what they hold before the first datagram is whatever the stack held     *)
ZeroStack == [i \in 1..56 |-> 0]
OnesStack == [i \in 1..56 |-> 255]

CtlIdle(buf) ==
    [pc |-> "loop", buf |-> buf, recv_len |-> 0, client_addr |-> 0,
     new_freq |-> Zeros(16), new_rate |-> Zeros(8), new_gain |-> 0]

(* a datagram of recv_len bytes written over the start of the buffer       *)
Overlay(d, buf) == d \o SubSeq(buf, Len(d) + 1, Len(buf))

Min(a, b) == IF a < b THEN a ELSE b

(* while (g_running), line 489                                             *)
C_Loop ==
    /\ ctl.pc = "loop"
    /\ ctl' = [ctl EXCEPT !.pc = IF g_running THEN "recv" ELSE "done"]
    /\ UNCHANGED <<h, mutex, main, env, main_mtu, g_samples_per_packet, g_running, g_sdr_config,
                   g_subscribers, g_stats, str, rxbuf, fe, sent, hist>>

(* recvfrom times out (line 493)                                           *)
C_Timeout ==
    /\ ctl.pc = "recv"
    /\ ctl' = [ctl EXCEPT !.pc = "loop"]
    /\ UNCHANGED <<h, mutex, main, env, main_mtu, g_samples_per_packet, g_running, g_sdr_config,
                   g_subscribers, g_stats, str, rxbuf, fe, sent, hist>>

(* a loop that does not count a datagram that failed to parse *)
C_Recv_drop_malformed ==
    /\ ctl.pc = "recv"
    /\ g_stats.reconfigs < env.maxDatagrams
    /\ \E a \in 1..Min(Len(g_subscribers) + 1, env.nAddrs), d \in env.dgrams :
         LET buf == Overlay(d, ctl.buf)
             r   == parse_context_packet(buf, Len(d), g_sdr_config.center_freq_hz,
                                         g_sdr_config.sample_rate_hz,
                                         g_sdr_config.gain_db)
         IN  ctl' = [pc |-> IF r.rc = 0 THEN "update" ELSE "loop",
                     buf |-> buf, recv_len |-> Len(d), client_addr |-> a,
                     new_freq |-> r.freq_hz, new_rate |-> r.rate_hz,
                     new_gain |-> r.gain_db]
    /\ hist' = [hist EXCEPT !.datagrams = @ + 1]
    /\ UNCHANGED <<h, mutex, main, env, main_mtu, g_samples_per_packet, g_running, g_sdr_config,
                   g_subscribers, g_stats, str, rxbuf, fe, sent>>

(* recvfrom returns a datagram; lines 501-505 read the store into the      *)
(* locals and parse.  New source addresses arrive in the order 1, 2, ...   *)
(* hist.datagrams counts the datagrams recvfrom has returned.              *)
C_Recv ==
    /\ ctl.pc = "recv"
    /\ g_stats.reconfigs < env.maxDatagrams
    /\ \E a \in 1..Min(Len(g_subscribers) + 1, env.nAddrs), d \in env.dgrams :
         LET buf == Overlay(d, ctl.buf)
             r   == parse_context_packet(buf, Len(d), g_sdr_config.center_freq_hz,
                                         g_sdr_config.sample_rate_hz,
                                         g_sdr_config.gain_db)
         IN  ctl' = [pc |-> IF r.rc = 0 THEN "update" ELSE "enrol",
                     buf |-> buf, recv_len |-> Len(d), client_addr |-> a,
                     new_freq |-> r.freq_hz, new_rate |-> r.rate_hz,
                     new_gain |-> r.gain_db]
    /\ hist' = [hist EXCEPT !.datagrams = @ + 1]
    /\ UNCHANGED <<h, mutex, main, env, main_mtu, g_samples_per_packet, g_running, g_sdr_config,
                   g_subscribers, g_stats, str, rxbuf, fe, sent>>

(* a writer that raises the flag for every datagram that parsed *)
UpdatedConfig_flag_always(c, new_freq, new_rate, new_gain) ==
    LET c1 == IF new_freq # c.center_freq_hz
              THEN [c EXCEPT !.center_freq_hz = new_freq] ELSE c
        c2 == IF new_rate # c.sample_rate_hz
              THEN [c1 EXCEPT !.sample_rate_hz = new_rate,
                              !.bandwidth_hz = Times08(new_rate)]
              ELSE c1
        c3 == IF new_gain # c.gain_db THEN [c2 EXCEPT !.gain_db = new_gain] ELSE c2
    IN  [c3 EXCEPT !.config_changed = TRUE]

(* the store after lines 509-538, for the decoded values                   *)
UpdatedConfig(c, new_freq, new_rate, new_gain) ==
    LET c1 == IF new_freq # c.center_freq_hz
              THEN [c EXCEPT !.center_freq_hz = new_freq] ELSE c
        c2 == IF new_rate # c.sample_rate_hz
              THEN [c1 EXCEPT !.sample_rate_hz = new_rate,
                              !.bandwidth_hz = Times08(new_rate)]
              ELSE c1
        c3 == IF new_gain # c.gain_db THEN [c2 EXCEPT !.gain_db = new_gain] ELSE c2
        changed == \/ new_freq # c.center_freq_hz
                   \/ new_rate # c.sample_rate_hz
                   \/ new_gain # c.gain_db
    IN  IF changed THEN [c3 EXCEPT !.config_changed = TRUE] ELSE c3

C_Update ==
    /\ ctl.pc = "update"
    /\ g_sdr_config' = UpdatedConfig(g_sdr_config, ctl.new_freq, ctl.new_rate, ctl.new_gain)
    /\ ctl' = [ctl EXCEPT !.pc = "enrol"]
    /\ UNCHANGED <<h, mutex, main, env, main_mtu, g_samples_per_packet, g_running,
                   g_subscribers, g_stats, str, rxbuf, fe, sent, hist>>

(* lines 549-551                                                           *)
C_Enrol ==
    /\ ctl.pc = "enrol"
    /\ g_subscribers' = add_subscriber(g_subscribers,
                                       [addr |-> ctl.client_addr, port |-> DATA_PORT])
    /\ ctl' = [ctl EXCEPT !.pc = "count"]
    /\ hist' = [hist EXCEPT
                   !.dup_ignored = @ \/ IsEnrolled(g_subscribers, ctl.client_addr, DATA_PORT),
                   !.cap_refused = @ \/ (/\ ~IsEnrolled(g_subscribers, ctl.client_addr, DATA_PORT)
                                         /\ Len(g_subscribers) >= MAX_SUBSCRIBERS)]
    /\ UNCHANGED <<h, mutex, main, env, main_mtu, g_samples_per_packet, g_running, g_sdr_config,
                   g_stats, str, rxbuf, fe, sent>>

(* lines 555-557                                                           *)
C_Count ==
    /\ ctl.pc = "count"
    /\ g_stats' = [g_stats EXCEPT !.reconfigs = @ + 1]
    /\ ctl' = CtlIdle(ctl.buf)
    /\ UNCHANGED <<h, mutex, main, env, main_mtu, g_samples_per_packet, g_running, g_sdr_config,
                   g_subscribers, str, rxbuf, fe, sent, hist>>

(* signal_handler (lines 192-196)                                          *)
Signal ==
    /\ g_running
    /\ g_running' = FALSE
    /\ UNCHANGED <<h, mutex, main, env, main_mtu, g_samples_per_packet, g_sdr_config,
                   g_subscribers, g_stats, ctl, str, rxbuf, fe, sent, hist>>


-----------------------------------------------------------------------------
(* streaming_thread (lines 565-766).  Each action is one critical section  *)
(* or one call on the radio together with the thread-local code around it. *)
(* The loop timings of g_stats are left out.  packets_sent, bytes_sent and *)
(* contexts_sent stop counting after MaxCounted packets.                   *)

MaxCounted == 2

(* packets_since_context is only compared with CONTEXT_INTERVAL (line     *)
(* 721); the model stops counting it at env.maxSinceContext, which is      *)
(* MaxSinceContext wherever line 721 is reached more than once.            *)
MaxSinceContext == 200

Counted(n) == IF n < MaxCounted THEN n + 1 ELSE n

(* bytes_sent after a packet of len bytes, when n packets were counted     *)
CountedBytes(n, b, len) == IF n < MaxCounted THEN b + len ELSE b

InitialHistory ==
    [last_cfg |-> "none", cfg_failed |-> FALSE, await |-> "none", ctx_count |-> 0,
     data_emitted |-> 0, periodic |-> FALSE, refills |-> 0, dup_ignored |-> FALSE, cap_refused |-> FALSE,
     sent_after |-> [dup |-> FALSE, cap |-> FALSE], failed_sends |-> 0,
     data_since_context |-> 0, datagrams |-> 0]

(* the history after a broadcast: what the registry had refused before it  *)
NoteSend(hs) == [hs EXCEPT !.sent_after = [dup |-> hs.dup_ignored, cap |-> hs.cap_refused]]

NoSnap ==
    [center_freq_hz |-> Zeros(16), sample_rate_hz |-> Zeros(8),
     bandwidth_hz |-> Zeros(8), gain_db |-> 0]

StrStart ==
    [pc |-> "init", packet_count |-> 0, packets_since_context |-> 0,
     num_samples |-> 0, offset |-> 0, packet_buf |-> EmptyPacketBuf,
     packet_len |-> 0, snap |-> NoSnap, ctx_from |-> "none"]

NoSend == [call |-> "none", buf |-> EmptyPacketBuf, len |-> 0, dests |-> <<>>]

(* lines 567-600: find the device, configure_sdr, create the buffer, open  *)
(* the data socket                                                         *)
S_Start ==
    /\ str.pc = "init"
    /\ \E ok \in (IF env.iioFails THEN BOOLEAN ELSE {TRUE}) :
         IF ok
         THEN /\ fe' = ConfigureValues(g_sdr_config)
              /\ rxbuf' = "open"
              /\ str' = [str EXCEPT !.pc = "loop"]
              /\ hist' = [hist EXCEPT !.last_cfg = "ok"]
         ELSE /\ str' = [str EXCEPT !.pc = "exit"]
              /\ UNCHANGED <<fe, rxbuf, hist>>
    /\ UNCHANGED <<h, mutex, main, env, main_mtu, g_samples_per_packet, g_running, g_sdr_config,
                   g_subscribers, g_stats, ctl, sent>>

(* while (g_running), line 602                                             *)
S_Loop ==
    /\ str.pc = "loop"
    /\ str' = [str EXCEPT !.pc = IF g_running THEN "tick" ELSE "cleanup"]
    /\ UNCHANGED <<h, mutex, main, env, main_mtu, g_samples_per_packet, g_running, g_sdr_config,
                   g_subscribers, g_stats, ctl, rxbuf, fe, sent, hist>>

(* line 605, less than 100 ms since the last check                         *)
S_NoCheck ==
    /\ str.pc = "tick"
    /\ str' = [str EXCEPT !.pc = "refill"]
    /\ UNCHANGED <<h, mutex, main, env, main_mtu, g_samples_per_packet, g_running, g_sdr_config,
                   g_subscribers, g_stats, ctl, rxbuf, fe, sent, hist>>

(* lines 605-612: read the flag under the configuration mutex              *)
S_Check ==
    /\ str.pc = "tick"
    /\ str' = [str EXCEPT !.pc = IF g_sdr_config.config_changed
                                 THEN "reconfigure" ELSE "refill"]
    /\ UNCHANGED <<h, mutex, main, env, main_mtu, g_samples_per_packet, g_running, g_sdr_config,
                   g_subscribers, g_stats, ctl, rxbuf, fe, sent, hist>>

(* lines 617-643: destroy the buffer, configure_sdr (which reads the store *)
(* under the configuration mutex), create the buffer again                 *)
S_Reconfigure ==
    /\ str.pc = "reconfigure"
    /\ \E cfg_ok \in (IF env.iioFails THEN BOOLEAN ELSE {TRUE}),
          buf_ok \in (IF env.iioFails THEN BOOLEAN ELSE {TRUE}) :
         /\ fe' = IF cfg_ok THEN ConfigureValues(g_sdr_config) ELSE fe
         /\ rxbuf' = IF buf_ok THEN "open" ELSE "null"
         /\ str' = [str EXCEPT !.pc = IF ~buf_ok THEN "cleanup"
                                      ELSE IF cfg_ok THEN "clear_ok" ELSE "clear_failed"]
         /\ hist' = [hist EXCEPT !.last_cfg = IF cfg_ok THEN "ok" ELSE "failed",
                                 !.cfg_failed = @ \/ ~cfg_ok,
                                 !.await = IF cfg_ok /\ buf_ok THEN "context" ELSE @,
                                 !.ctx_count = IF cfg_ok /\ buf_ok THEN 0 ELSE @]
    /\ UNCHANGED <<h, mutex, main, env, main_mtu, g_samples_per_packet, g_running, g_sdr_config,
                   g_subscribers, g_stats, ctl, sent>>

(* lines 632-635                                                           *)
S_ClearFailed ==
    /\ str.pc = "clear_failed"
    /\ g_sdr_config' = [g_sdr_config EXCEPT !.config_changed = FALSE]
    /\ str' = [str EXCEPT !.pc = "loop"]
    /\ UNCHANGED <<h, mutex, main, env, main_mtu, g_samples_per_packet, g_running,
                   g_subscribers, g_stats, ctl, rxbuf, fe, sent, hist>>

(* clearing the flag and going straight back to capturing *)
S_ClearOk_NoContext ==
    /\ str.pc = "clear_ok"
    /\ g_sdr_config' = [g_sdr_config EXCEPT !.config_changed = FALSE]
    /\ str' = [str EXCEPT !.pc = "refill"]
    /\ UNCHANGED <<h, mutex, main, env, main_mtu, g_samples_per_packet, g_running,
                   g_subscribers, g_stats, ctl, rxbuf, fe, sent, hist>>

(* lines 646-648                                                           *)
S_ClearOk ==
    /\ str.pc = "clear_ok"
    /\ g_sdr_config' = [g_sdr_config EXCEPT !.config_changed = FALSE]
    /\ str' = [str EXCEPT !.pc = "ctx_snap", !.ctx_from = "reconfigure"]
    /\ UNCHANGED <<h, mutex, main, env, main_mtu, g_samples_per_packet, g_running,
                   g_subscribers, g_stats, ctl, rxbuf, fe, sent, hist>>

(* encode_context_packet, lines 246-251: the snapshot of the store         *)
S_CtxSnap ==
    /\ str.pc = "ctx_snap"
    /\ str' = [str EXCEPT !.pc = "ctx_stats",
                          !.snap = [center_freq_hz |-> g_sdr_config.center_freq_hz,
                                    sample_rate_hz |-> g_sdr_config.sample_rate_hz,
                                    bandwidth_hz   |-> g_sdr_config.bandwidth_hz,
                                    gain_db        |-> g_sdr_config.gain_db]]
    /\ UNCHANGED <<h, mutex, main, env, main_mtu, g_samples_per_packet, g_running, g_sdr_config,
                   g_subscribers, g_stats, ctl, rxbuf, fe, sent, hist>>

(* encode_context_packet, lines 253-353: the health counters, read under   *)
(* the statistics mutex, and the packet                                    *)
S_CtxStats ==
    /\ str.pc = "ctx_stats"
    /\ str' = [str EXCEPT !.pc = "ctx_send",
                          !.packet_buf = ContextBuf(encode_context_packet(
                                             str.snap, g_stats.underflows,
                                             g_stats.overflows, ClockReading)),
                          !.packet_len = 56,
                          !.snap = NoSnap]
    /\ UNCHANGED <<h, mutex, main, env, main_mtu, g_samples_per_packet, g_running, g_sdr_config,
                   g_subscribers, g_stats, ctl, rxbuf, fe, sent, hist>>

(* lines 652-661 and 723-727: broadcast the context packet                 *)
S_CtxSend ==
    /\ str.pc = "ctx_send"
    /\ sent' = [call |-> "context", buf |-> str.packet_buf, len |-> str.packet_len,
                dests |-> broadcast_to_subscribers(g_subscribers)]
    /\ str' = [str EXCEPT !.pc = IF str.ctx_from = "reconfigure" THEN "refill" ELSE "chunk",
                          !.packets_since_context = 0,
                          !.ctx_from = "none"]
    /\ hist' = NoteSend([hist EXCEPT !.ctx_count = IF hist.await = "context" /\ @ < 2
                                                   THEN @ + 1 ELSE @,
                                     !.periodic = @ \/ (str.ctx_from = "periodic"),
                                     !.data_since_context = 0])
    /\ g_stats' = [g_stats EXCEPT !.contexts_sent = Counted(@)]
    /\ UNCHANGED <<h, mutex, main, env, main_mtu, g_samples_per_packet, g_running, g_sdr_config,
                   g_subscribers, ctl, rxbuf, fe>>


(* lines 667-686: iio_buffer_refill fails, iio_buffer_first finds no       *)
(* samples, or the refill delivers num_samples IQ pairs                    *)
S_Refill ==
    /\ str.pc = "refill"
    /\ \/ /\ g_stats.refill_failures < env.maxRefillFailures
          /\ g_stats' = [g_stats EXCEPT !.refill_failures = @ + 1]
          /\ str' = [str EXCEPT !.pc = "loop"]
       \/ /\ env.iioFails
          /\ str' = [str EXCEPT !.pc = "loop"]
          /\ UNCHANGED g_stats
       \/ /\ env.capRefills => hist.refills < env.maxRefills
          /\ \E n \in env.refills :
               str' = [str EXCEPT !.pc = "health", !.num_samples = n]
          /\ UNCHANGED g_stats
    /\ hist' = IF str'.pc = "health" /\ env.capRefills
               THEN [hist EXCEPT !.refills = @ + 1] ELSE hist
    /\ UNCHANGED <<h, mutex, main, env, main_mtu, g_samples_per_packet, g_running, g_sdr_config,
                   g_subscribers, ctl, rxbuf, fe, sent>>

(* line 703: the discrepancy, in microseconds, above which a refill counts *)
(* as a timestamp jump                                                     *)
JumpThresholdUs == 10000

(* values of delta_error (line 701), actual minus expected microseconds,   *)
(* on both sides of the threshold; all far from the ends of int64_t        *)
DeltaErrors == {-JumpThresholdUs - 1, -JumpThresholdUs, 0,
                JumpThresholdUs, JumpThresholdUs + 1}

(* lines 703 and 708: llabs(delta_error) > 10000, then delta_error > 0     *)
DeltaClass(delta_error) ==
    LET llabs == IF delta_error < 0 THEN -delta_error ELSE delta_error
    IN  IF llabs > JumpThresholdUs
        THEN (IF delta_error > 0 THEN "late" ELSE "early")
        ELSE "none"

(* a check that counts an early refill as a jump only *)
TimestampJump_jump_only(stats, error) ==
    [stats EXCEPT !.timestamp_jumps = IF error = "none" THEN @ ELSE @ + 1,
                  !.underflows = IF error = "late" THEN @ + 1 ELSE @,
                  !.last_timestamp_set = TRUE]

(* g_stats after lines 703-717 when the measured time is more than 10 ms   *)
(* late ("late"), more than 10 ms early ("early") or neither ("none")      *)
TimestampJump(stats, error) ==
    [stats EXCEPT !.timestamp_jumps = IF error = "none" THEN @ ELSE @ + 1,
                  !.underflows = IF error = "late" THEN @ + 1 ELSE @,
                  !.overflows = IF error = "early" THEN @ + 1 ELSE @,
                  !.last_timestamp_set = TRUE]

(* lines 689-721: the discontinuity check, under the statistics mutex and, *)
(* inside it, the configuration mutex; then the choice of line 721.  A     *)
(* stored sample rate of 0 makes line 699 divide by zero.                  *)
S_Health ==
    /\ str.pc = "health"
    /\ \E delta_error \in DeltaErrors, fault \in BOOLEAN :
       LET error == DeltaClass(delta_error) IN
         /\ error # "none" =>
               /\ g_stats.last_timestamp_set
               /\ g_stats.timestamp_jumps < env.maxJumps
         /\ fault => (g_stats.last_timestamp_set
                        /\ g_sdr_config.sample_rate_hz = Zeros(8))
         /\ IF fault
            THEN /\ str' = [str EXCEPT !.pc = "crashed"]
                 /\ UNCHANGED g_stats
            ELSE /\ g_stats' = TimestampJump(g_stats, error)
                 /\ str' = [str EXCEPT
                        !.pc = IF str.packets_since_context >= CONTEXT_INTERVAL
                               THEN "ctx_snap" ELSE "chunk",
                        !.ctx_from = IF str.packets_since_context >= CONTEXT_INTERVAL
                                     THEN "periodic" ELSE "none",
                        !.offset = 0]
    /\ UNCHANGED <<h, mutex, main, env, main_mtu, g_samples_per_packet, g_running, g_sdr_config,
                   g_subscribers, ctl, rxbuf, fe, sent, hist>>

(* lines 731-745: one pass of the packetize loop.  sendto's result is not   *)
(* looked at (lines 232-234), so nothing counts a failed send; lines       *)
(* 740-743 count the packet and its length whoever it was sent to.         *)
S_Chunk ==
    /\ str.pc = "chunk"
    /\ str.offset < str.num_samples
    /\ LET e == encode_data_packet(str.packet_buf, ChunkSize(str.offset, str.num_samples),
                                   str.packet_count, ClockReading)
       IN  /\ sent' = [call |-> "data", buf |-> e.buf, len |-> e.len,
                       dests |-> broadcast_to_subscribers(g_subscribers)]
           /\ str' = [str EXCEPT !.packet_buf = e.buf,
                                 !.packet_len = e.len,
                                 !.packet_count = e.packet_count,
                                 !.packets_since_context = Min(@ + 1, env.maxSinceContext),
                                 !.offset = @ + g_samples_per_packet]
           /\ hist' = NoteSend([hist EXCEPT
                                   !.await = IF @ = "context" THEN "done" ELSE @,
                                   !.data_emitted = IF e.len > 0 THEN (@ + 1) % 16 ELSE @,
                                   !.data_since_context = IF e.len > 0
                                                          THEN Min(@ + 1, env.maxSinceContext)
                                                          ELSE @])
           /\ g_stats' = [g_stats EXCEPT !.packets_sent = Counted(@),
                                         !.bytes_sent = CountedBytes(g_stats.packets_sent, @, e.len)]
    /\ UNCHANGED <<h, mutex, main, env, main_mtu, g_samples_per_packet, g_running, g_sdr_config,
                   g_subscribers, ctl, rxbuf, fe>>

(* lines 731 and 748-759: the loop is done                                 *)
S_LoopEnd ==
    /\ str.pc = "chunk"
    /\ str.offset >= str.num_samples
    /\ str' = [str EXCEPT !.pc = "loop", !.num_samples = 0, !.offset = 0]
    /\ UNCHANGED <<h, mutex, main, env, main_mtu, g_samples_per_packet, g_running, g_sdr_config,
                   g_subscribers, g_stats, ctl, rxbuf, fe, sent, hist>>

(* lines 761-765.  iio_buffer_destroy on the NULL handle left by lines 629 *)
(* and 642 is undefined: the thread returns or the process dies.           *)
S_Cleanup ==
    /\ str.pc = "cleanup"
    /\ \E outcome \in (IF rxbuf = "null" THEN {"exit", "crashed"} ELSE {"exit"}) :
         str' = [str EXCEPT !.pc = outcome]
    /\ rxbuf' = IF rxbuf = "open" THEN "destroyed" ELSE rxbuf
    /\ UNCHANGED <<h, mutex, main, env, main_mtu, g_samples_per_packet, g_running, g_sdr_config,
                   g_subscribers, g_stats, ctl, fe, sent, hist>>

-----------------------------------------------------------------------------
(* main (lines 820-916): the state when both threads have been created,    *)
(* for an MTU of e.mtus on the command line                                *)

(* every mutex free; nested is the record of nested lock calls            *)
Unlocked == [config |-> "free", subscribers |-> "free", stats |-> "free", nested |-> {}]

(* main between the pthread_create calls (lines 915-916) and its monitor   *)
(* loop (line 919)                                                         *)
MainStart == [pc |-> "monitor", control_sock |-> "open", ctx |-> "created"]

InitialStats ==
    [packets_sent |-> 0, bytes_sent |-> 0, contexts_sent |-> 0, reconfigs |-> 0,
     underflows |-> 0, overflows |-> 0, refill_failures |-> 0, send_failures |-> 0,
     timestamp_jumps |-> 0, last_timestamp_set |-> FALSE]

ProgramInit(e) ==
    /\ env = e
    /\ mutex = Unlocked
    /\ main = MainStart
    /\ main_mtu \in e.mtus
    /\ g_samples_per_packet =
           NibsToNat(main_packet_sizes(SizeT(main_mtu)).g_samples_per_packet)
    /\ g_running = TRUE
    /\ g_sdr_config = InitialConfig
    /\ g_subscribers = <<>>
    /\ g_stats = InitialStats
    /\ ctl \in {CtlIdle(b) : b \in e.stack}
    /\ str = StrStart
    /\ rxbuf = "none"
    /\ fe = Unconfigured
    /\ sent = NoSend
    /\ hist = InitialHistory


-----------------------------------------------------------------------------
(* The running program: both threads and the signal handler, with control  *)
(* datagrams from a client that asks for 915 MHz, for 100 MHz, or for      *)
(* 100 MHz at 2.5 MS/s and 33.5 dB                                         *)

Request(freq, rate, gain) ==
    encode_context_packet([center_freq_hz |-> freq, sample_rate_hz |-> rate,
                           bandwidth_hz |-> Times08(rate), gain_db |-> gain],
                          0, 0, ClockReading)

RequestA == Request(NatToNibs(915000000, 16), DEFAULT_RATE_HZ, DEFAULT_GAIN_DB)
RequestB == Request(NatToNibs(100000000, 16), NatToNibs(2500000, 8), 67 * 64 * GainSub)

MaxDatagrams == 2
MaxRefillFailures == 1
MaxJumps == 1
MaxRefills == 1
NumAddrs == 1

EnvRun ==
    [nAddrs |-> NumAddrs, dgrams |-> {RequestA, RequestB},
     maxDatagrams |-> MaxDatagrams, maxRefillFailures |-> MaxRefillFailures,
     maxJumps |-> MaxJumps, refills |-> {DEFAULT_BUFFER_SIZE},
     capRefills |-> TRUE, maxRefills |-> MaxRefills,
     mtus |-> {MTU_JUMBO, 20000}, iioFails |-> TRUE,
     maxSinceContext |-> MaxSinceContext,
     stack |-> {ZeroStack}]

Init ==
    /\ h = [op |-> "idle"]
    /\ ProgramInit(EnvRun)

Next ==
    \/ C_Loop \/ C_Timeout \/ C_Recv \/ C_Update \/ C_Enrol \/ C_Count
    \/ Signal
    \/ S_Start \/ S_Loop \/ S_NoCheck \/ S_Check \/ S_Reconfigure
    \/ S_ClearFailed \/ S_ClearOk \/ S_CtxSnap \/ S_CtxStats \/ S_CtxSend
    \/ S_Refill \/ S_Health \/ S_Chunk \/ S_LoopEnd \/ S_Cleanup

Spec == Init /\ [][Next]_vars

(* The running program over long runs: one client, one kind of request,    *)
(* a healthy radio, and MTUs whose data packets fit and do not fit the     *)
(* packet buffer                                                           *)
MaxRequests == 1

EnvStream ==
    [nAddrs |-> 1, dgrams |-> {RequestB},
     maxDatagrams |-> MaxRequests, maxRefillFailures |-> MaxRefillFailures,
     maxJumps |-> 0, refills |-> {DEFAULT_BUFFER_SIZE},
     capRefills |-> FALSE, maxRefills |-> 0,
     mtus |-> {MTU_JUMBO}, iioFails |-> FALSE,
     maxSinceContext |-> MaxSinceContext,
     stack |-> {ZeroStack}]

InitStream ==
    /\ h = [op |-> "idle"]
    /\ ProgramInit(EnvStream)

(* with a healthy radio configure_sdr never fails *)
NextStream ==
    \/ C_Loop \/ C_Timeout \/ C_Recv \/ C_Update \/ C_Enrol \/ C_Count
    \/ Signal
    \/ S_Start \/ S_Loop \/ S_NoCheck \/ S_Check \/ S_Reconfigure
    \/ S_ClearOk \/ S_CtxSnap \/ S_CtxStats \/ S_CtxSend
    \/ S_Refill \/ S_Health \/ S_Chunk \/ S_LoopEnd \/ S_Cleanup

SpecStream == InitStream /\ [][NextStream]_vars

-----------------------------------------------------------------------------
(* The registry under control traffic: datagrams from one more source      *)
(* address than the registry has room for, and broadcasts at any moment    *)

MaxEnrolments == 18

EnvReg ==
    [nAddrs |-> MAX_SUBSCRIBERS + 1, dgrams |-> {RequestA},
     maxDatagrams |-> MaxEnrolments, maxRefillFailures |-> 0,
     maxJumps |-> 0, refills |-> {}, capRefills |-> TRUE, maxRefills |-> 0,
     mtus |-> {MTU_STANDARD}, iioFails |-> FALSE,
     maxSinceContext |-> MaxSinceContext,
     stack |-> {ZeroStack}]

(* a call of broadcast_to_subscribers (lines 228-238) by the streaming     *)
(* thread, whatever the packet.  One of its sendto calls may return -1;    *)
(* the result is not looked at (lines 232-234), and hist.failed_sends      *)
(* counts these calls up to MaxCounted.                                    *)
H_Broadcast ==
    /\ sent' = [call |-> "any", buf |-> EmptyPacketBuf, len |-> 0,
                dests |-> broadcast_to_subscribers(g_subscribers)]
    /\ \E failed \in 0..Min(1, Len(broadcast_to_subscribers(g_subscribers))) :
         hist' = NoteSend([hist EXCEPT !.failed_sends =
                                          IF failed = 1 THEN Counted(@) ELSE @])
    /\ UNCHANGED <<h, mutex, main, env, main_mtu, g_samples_per_packet, g_running, g_sdr_config,
                   g_subscribers, g_stats, ctl, str, rxbuf, fe>>

InitReg ==
    /\ h = [op |-> "idle"]
    /\ ProgramInit(EnvReg)

NextReg ==
    \/ C_Loop \/ C_Timeout \/ C_Recv \/ C_Update \/ C_Enrol \/ C_Count
    \/ H_Broadcast

SpecReg == InitReg /\ [][NextReg]_vars

-----------------------------------------------------------------------------
(* Codec harness: the context encoder and decoder applied to bounded       *)
(* inputs                                                                  *)

SupportedBits ==
    {CIF_BANDWIDTH, CIF_FREQUENCY, CIF_GAIN, CIF_SAMPLE_RATE, CIF_STATE_EVENT}

(* the 32-bit word with exactly the bits of the set `bits` set             *)
CifWord(bits) ==
    [i \in 1..8 |->
        (IF (4 * (8 - i) + 3) \in bits THEN 8 ELSE 0)
      + (IF (4 * (8 - i) + 2) \in bits THEN 4 ELSE 0)
      + (IF (4 * (8 - i) + 1) \in bits THEN 2 ELSE 0)
      + (IF (4 * (8 - i)) \in bits THEN 1 ELSE 0)]

(* stored configurations of the round-trip range: 70 MHz .. 6 GHz,         *)
(* 520 kS/s .. 61.44 MS/s, -3 .. 73 dB                                     *)
CodecFreqs ==
    {NatToNibs(70000000, 16), NatToNibs(100000000, 16), NatToNibs(915000000, 16),
     DEFAULT_FREQ_HZ,
     Hex64(<<1, 6, 5, 10, 0, 11, 11, 15, 15>>),     \* 5999999999
     Hex64(<<1, 6, 5, 10, 0, 11, 12, 0, 0>>)}       \* 6000000000

CodecRates ==
    {NatToNibs(520000, 8), NatToNibs(2083333, 8), DEFAULT_RATE_HZ,
     NatToNibs(61440000, 8)}

GainMin == -3 * 128 * GainSub
GainMax == 73 * 128 * GainSub

CodecGains ==
    {GainMin, GainMin + 1, GainMin + GainSub - 1, GainMin + GainSub + 1,
     -GainSub - 1, -GainSub, -1, 0, 1, GainSub - 1, GainSub, GainSub + 1,
     DEFAULT_GAIN_DB, DEFAULT_GAIN_DB + 1, GainMax - 1, GainMax}

(* values the decoder's output parameters hold before the call             *)
OutFreq0 == NatToNibs(1, 16)
OutRate0 == NatToNibs(2, 8)
OutGain0 == 3 * GainSub

(* a 56-byte datagram whose CIF is `bits` and whose byte at offset j >= 24 *)
(* is a function of j, so a field read at a wrong offset reads a wrong     *)
(* value                                                                   *)
MarkerPatterns == {1, 3, 5, 7}

MarkerPacket(bits, pat) ==
    htonBytes(HeaderWord(VRT_PKT_TYPE_CONTEXT, FALSE, 0, 14))
        \o HeaderTail(ClockReading) \o htonBytes(CifWord(bits))
        \o [j \in 1..32 |-> ((23 + j) * pat + 11) % 256]

H_Encode ==
    /\ h.op = "idle"
    /\ \E f \in CodecFreqs, r \in CodecRates, g \in CodecGains, uf \in 0..1, ov \in 0..1 :
         LET snap == [center_freq_hz |-> f, sample_rate_hz |-> r,
                      bandwidth_hz |-> Times08(r), gain_db |-> g]
         IN  h' = [op |-> "encoded", snap |-> snap, underflows |-> uf, overflows |-> ov,
                   pkt |-> encode_context_packet(snap, uf, ov, ClockReading)]
    /\ UNCHANGED progVars

H_Decode ==
    /\ h.op = "encoded"
    /\ h' = [op |-> "decoded", snap |-> h.snap, underflows |-> h.underflows,
             overflows |-> h.overflows, pkt |-> h.pkt,
             out |-> parse_context_packet(h.pkt, Len(h.pkt), OutFreq0, OutRate0, OutGain0)]
    /\ UNCHANGED progVars

H_ParseAny ==
    /\ h.op = "idle"
    /\ \E bits \in SUBSET SupportedBits, pat \in MarkerPatterns :
         h' = [op |-> "parsed", bits |-> bits, buf |-> MarkerPacket(bits, pat),
               out |-> parse_context_packet(MarkerPacket(bits, pat), 56,
                                            OutFreq0, OutRate0, OutGain0)]
    /\ UNCHANGED progVars

(* CIF bits the codec has no field for                                     *)
UnknownBits == {31, 30, 28, 24, 22, 20, 0}

(* a datagram whose CIF has one bit outside the supported set              *)
H_ParseUnknown ==
    /\ h.op = "idle"
    /\ \E bits \in SUBSET SupportedBits, u \in UnknownBits, pat \in MarkerPatterns :
         h' = [op |-> "parsed_unknown", bits |-> bits \cup {u},
               buf |-> MarkerPacket(bits \cup {u}, pat),
               out |-> parse_context_packet(MarkerPacket(bits \cup {u}, pat), 56,
                                            OutFreq0, OutRate0, OutGain0)]
    /\ UNCHANGED progVars

(* MTUs the operator supplies with --mtu / --jumbo: every value up to      *)
(* MaxSmallMtu and the usual link MTUs                                     *)
MaxSmallMtu == 120

MtuInputs ==
    (0..MaxSmallMtu) \cup {576, 1492, MTU_STANDARD, MTU_JUMBO, 16412, 16416, 20000, 65535}

H_Size ==
    /\ h.op = "idle"
    /\ \E m \in MtuInputs :
         h' = [op |-> "sized", mtu |-> m, sizes |-> main_packet_sizes(SizeT(m))]
    /\ UNCHANGED progVars

(* the surroundings of the pure-function specifications: no traffic        *)
EnvNone ==
    [nAddrs |-> 0, dgrams |-> {}, maxDatagrams |-> 0, maxRefillFailures |-> 0,
     maxJumps |-> 0, refills |-> {}, capRefills |-> TRUE, maxRefills |-> 0,
     mtus |-> {MTU_STANDARD}, iioFails |-> FALSE,
     maxSinceContext |-> MaxSinceContext,
     stack |-> {ZeroStack}]

InitCodec ==
    /\ h = [op |-> "idle"]
    /\ ProgramInit(EnvNone)

NextCodec == H_Encode \/ H_Decode \/ H_ParseAny \/ H_ParseUnknown \/ H_Size

SpecCodec == InitCodec /\ [][NextCodec]_vars

(* C6: context round trip.  For every stored configuration of the range,   *)
(* the decoder applied to the encoder's output succeeds and returns the    *)
(* stored frequency and sample rate exactly (hence within 1 Hz) and a gain *)
(* less than 1/128 dB (GainSub model steps) away from the stored gain.     *)
C6_RoundTrip ==
    h.op = "decoded" =>
        /\ h.out.rc = 0
        /\ h.out.freq_hz = h.snap.center_freq_hz
        /\ h.out.rate_hz = h.snap.sample_rate_hz
        /\ h.out.gain_db - h.snap.gain_db < GainSub
        /\ h.snap.gain_db - h.out.gain_db < GainSub

C6_Witness ==
    /\ h.op = "decoded"
    /\ h.snap.center_freq_hz = Hex64(<<1, 6, 5, 10, 0, 11, 12, 0, 0>>)
    /\ h.snap.gain_db = GainMin + 1
    /\ h.out.gain_db # h.snap.gain_db
    /\ h.out.rc = 0

(* C7: CIF field order.  The encoder's packet carries, after the CIF with  *)
(* the five supported bits, bandwidth (8 bytes), frequency (8), gain (4),  *)
(* sample rate (8) and state/event (4) in that order; and for every subset *)
(* of the five bits the decoder reads each present field at offset 24 plus *)
(* the widths of the present higher-bit fields, an absent field leaving    *)
(* its output untouched and the cursor where it was.                       *)
FieldAt(buf, off) == SDivPow20(ntohNibs(SubSeq(buf, off + 1, off + 8)))

C7_FieldOrder ==
    /\ h.op \in {"encoded", "decoded"} =>
        /\ Len(h.pkt) = 56
        /\ Load32(h.pkt, 20) = CifWord(SupportedBits)
        /\ FieldAt(h.pkt, 24) = ZeroExt64(h.snap.bandwidth_hz)
        /\ FieldAt(h.pkt, 32) = h.snap.center_freq_hz
        /\ BitsInt16(Load16(h.pkt, 40)) = TruncDiv(h.snap.gain_db, GainSub)
        /\ SubSeq(h.pkt, 43, 44) = <<0, 0>>
        /\ FieldAt(h.pkt, 44) = ZeroExt64(h.snap.sample_rate_hz)
        /\ Load32(h.pkt, 52) = StateEvent(h.underflows, h.overflows)
    /\ h.op = "parsed" =>
        LET w(b, n) == IF b \in h.bits THEN n ELSE 0
            offFreq == 24 + w(CIF_BANDWIDTH, 8)
            offGain == offFreq + w(CIF_FREQUENCY, 8)
            offRate == offGain + w(CIF_GAIN, 4)
        IN  /\ h.out.rc = 0
            /\ h.out.freq_hz = IF CIF_FREQUENCY \in h.bits
                               THEN FieldAt(h.buf, offFreq) ELSE OutFreq0
            /\ h.out.gain_db = IF CIF_GAIN \in h.bits
                               THEN BitsInt16(Load16(h.buf, offGain)) * GainSub
                               ELSE OutGain0
            /\ h.out.rate_hz = IF CIF_SAMPLE_RATE \in h.bits
                               THEN Low32(FieldAt(h.buf, offRate)) ELSE OutRate0

C7_Witness ==
    /\ h.op = "parsed"
    /\ h.bits = {CIF_GAIN, CIF_SAMPLE_RATE}
    /\ h.out.rate_hz = Low32(FieldAt(h.buf, 28))
    /\ h.out.rate_hz # Low32(FieldAt(h.buf, 24))


(* C9: MTU sizer.  For every MTU M the operator supplies, the sizer's      *)
(* result is floor((M - 28 - 24) / 4) rounded down to an even number, is   *)
(* even, and the datagram 28 + 24 + 4 * result does not exceed M.          *)
C9_SizerFormula ==
    h.op = "sized" =>
        LET r == NibsToNat(h.sizes.g_samples_per_packet)
        IN  /\ r = 2 * (((h.mtu - 28 - 24) \div 4) \div 2)
            /\ r % 2 = 0
            /\ r <= (h.mtu - 28 - 24) \div 4

(* the same statement for M >= 52 only: what the code does satisfy         *)
SizerFrom52 ==
    (h.op = "sized" /\ h.mtu >= 52) =>
        LET r == NibsToNat(h.sizes.g_samples_per_packet)
        IN  /\ r = 2 * (((h.mtu - 28 - 24) \div 4) \div 2)
            /\ r % 2 = 0
            /\ r <= (h.mtu - 28 - 24) \div 4
            /\ ~h.sizes.warns



-----------------------------------------------------------------------------
(* Properties of the registry, under SpecReg                               *)

Endpoints(n) == [i \in 1..n |-> [addr |-> i, port |-> DATA_PORT]]

(* C4: subscriber cap.  The registry never holds more than 16 entries;     *)
(* the entries are the first source addresses in the order they enrolled,  *)
(* all active; once an enrolment has been refused for lack of room the     *)
(* registry holds exactly the first 16, and every broadcast made after the *)
(* refusal goes to exactly those 16 endpoints, in order.                   *)
C4_SubscriberCap ==
    /\ Len(g_subscribers) <= 16
    /\ \A i \in 1..Len(g_subscribers) :
          g_subscribers[i] = [addr |-> i, port |-> DATA_PORT, active |-> TRUE]
    /\ hist.cap_refused => Len(g_subscribers) = 16
    /\ hist.sent_after.cap => sent.dests = Endpoints(16)

(* the 17th address has been refused and a broadcast has followed          *)
C4_Witness ==
    /\ hist.sent_after.cap
    /\ ctl.client_addr = 17
    /\ Len(sent.dests) = 16

(* C5: duplicate enrolment is idempotent.  No two registry entries have    *)
(* the same (address, port); enrolling any endpoint already in the         *)
(* registry returns the registry unchanged; the registry holds at most as  *)
(* many entries as datagrams were handled; no broadcast names an endpoint  *)
(* twice.                                                                  *)
C5_DuplicateIdempotent ==
    /\ \A i, j \in 1..Len(g_subscribers) :
          (i # j) => ~(/\ g_subscribers[i].addr = g_subscribers[j].addr
                       /\ g_subscribers[i].port = g_subscribers[j].port)
    /\ \A i \in 1..Len(g_subscribers) :
          add_subscriber(g_subscribers, [addr |-> g_subscribers[i].addr,
                                         port |-> g_subscribers[i].port]) = g_subscribers
    /\ \A i, j \in 1..Len(sent.dests) : (i # j) => sent.dests[i] # sent.dests[j]

(* the same address has sent a second datagram, more addresses have        *)
(* enrolled, and a broadcast has followed                                  *)
C5_Witness ==
    /\ hist.sent_after.dup
    /\ Len(sent.dests) >= 2
    /\ g_stats.reconfigs > Len(g_subscribers)

-----------------------------------------------------------------------------
(* Properties of the running program                                       *)

(* C1: concurrent reconfigure.  When the control thread has handled two    *)
(* requests and is idle, no configure call has failed and the dirty flag   *)
(* is clear, the front-end holds the values of the last request (the one   *)
(* still in the control thread's receive buffer).                          *)
C1_SecondRequestApplied ==
    (/\ ctl.pc \in {"loop", "recv"}
     /\ g_stats.reconfigs >= 2
     /\ ~hist.cfg_failed
     /\ ~g_sdr_config.config_changed)
    => LET r == parse_context_packet(ctl.buf, 56, Zeros(16), Zeros(8), 0)
       IN  /\ fe = ConfigureValues(g_sdr_config)
           /\ fe.frequency = r.freq_hz
           /\ fe.sampling_frequency = r.rate_hz
           /\ fe.hardwaregain = RoundTenths(r.gain_db)

(* C2: context before data after a reconfiguration.  When the first data   *)
(* packet after a successful reconfiguration (configure_sdr returned 0 and *)
(* the buffer was created again) has been broadcast, exactly one context   *)
(* packet has been broadcast since that reconfiguration.                   *)
C2_ContextBeforeData ==
    hist.await = "done" => hist.ctx_count = 1

(* a request has been applied, its context packet sent, and the first data *)
(* packet after it has just been broadcast                                 *)
C2_Witness ==
    /\ hist.await = "done"
    /\ hist.ctx_count = 1
    /\ sent.call = "data"
    /\ str.pc = "chunk"
    /\ str.offset = g_samples_per_packet
    /\ hist.last_cfg = "ok"
    /\ fe.frequency # DEFAULT_FREQ_HZ

(* C3: packet counter.  The counter field of the n-th data packet emitted  *)
(* (n = 0, 1, ...) is n mod 16, whatever context packets, reconfigurations *)
(* and refill failures come between; and the steps of                      *)
(* encode_context_packet and of its broadcast leave the counter alone.     *)
C3_CounterMonotonic ==
    /\ [](/\ str.packet_count = hist.data_emitted
          /\ (sent.call = "data" /\ sent.len > 0)
                => PacketCounter(sent.buf) = (hist.data_emitted + 15) % 16)
    /\ [][str.pc \in {"ctx_snap", "ctx_stats", "ctx_send"}
             => str'.packet_count = str.packet_count]_vars

(* the counter has wrapped to 0 after a periodic context packet, a         *)
(* reconfiguration and a refill failure                                    *)
C3_Witness ==
    /\ sent.call = "data"
    /\ sent.len > 0
    /\ PacketCounter(sent.buf) = 0
    /\ hist.data_emitted = 1
    /\ hist.periodic
    /\ hist.await = "done"
    /\ g_stats.refill_failures >= 1

(* C8: length invariant.  Right after a pass of the packetize loop, the    *)
(* packet handed to broadcast was a data packet of 20 + 4 * n + 4 bytes    *)
(* for the n samples of the chunk, its total-words field times 4 is that   *)
(* length, and the length is at most MTU - 28.                             *)
C8_LengthInvariant ==
    (str.pc = "chunk" /\ str.offset > 0) =>
        LET n == ChunkSize(str.offset - g_samples_per_packet, str.num_samples)
        IN  /\ sent.call = "data"
            /\ sent.len = 20 + 4 * n + 4
            /\ Len(sent.buf.head) >= 4
            /\ PacketType(sent.buf) = VRT_PKT_TYPE_DATA
            /\ TotalWords(sent.buf) * 4 = sent.len
            /\ sent.len <= main_mtu - 28

(* C10: dirty flag.  The flag is set only by the control thread's store    *)
(* update; it is cleared only by the streaming thread, and only when the   *)
(* last configure_sdr call succeeded and wrote the values the store holds  *)
(* when the flag is cleared.                                               *)
C10_FlagDiscipline ==
    [][/\ (~g_sdr_config.config_changed /\ g_sdr_config'.config_changed)
            => ctl.pc = "update"
       /\ (g_sdr_config.config_changed /\ ~g_sdr_config'.config_changed)
            => /\ str.pc \in {"clear_ok", "clear_failed"}
               /\ hist.last_cfg = "ok"
               /\ fe' = ConfigureValues(g_sdr_config')]_vars

-----------------------------------------------------------------------------
(* The three mutexes (lines 67, 86, 120) and the threads at the level of   *)
(* single pthread_mutex_lock and pthread_mutex_unlock calls.  A step is a  *)
(* lock call, an unlock call, or one access of the shared records together *)
(* with the thread-local code that follows it.                             *)

Mutexes == {"config", "subscribers", "stats"}

Held(t) == {m \in Mutexes : mutex[m] = t}

(* pthread_mutex_lock by thread t: returns once the mutex is free.  nested *)
(* keeps every pair <<held, acquired>> a thread has locked inside another. *)
(* a lock call that does not wait for the owner *)
pthread_mutex_lock_nowait(t, m) ==
    mutex' = [mutex EXCEPT ![m] = t, !.nested = @ \cup {<<o, m>> : o \in Held(t)}]

pthread_mutex_lock(t, m) ==
    /\ mutex[m] = "free"
    /\ mutex' = [mutex EXCEPT ![m] = t, !.nested = @ \cup {<<o, m>> : o \in Held(t)}]

pthread_mutex_unlock(t, m) == mutex' = [mutex EXCEPT ![m] = "free"]

(* the position after each lock call of control_thread and add_subscriber  *)
(* (lines 509, 200, 555)                                                   *)
ControlLocks ==
    [update |-> [m |-> "config",      to |-> "cmp_freq"],
     enrol  |-> [m |-> "subscribers", to |-> "scan"],
     count  |-> [m |-> "stats",       to |-> "count_inc"]]

(* the position after each unlock call (lines 538, 207, 224, 557)          *)
ControlUnlocks ==
    [upd_unlock   |-> [m |-> "config",      to |-> "enrol"],
     dup_unlock   |-> [m |-> "subscribers", to |-> "count"],
     add_unlock   |-> [m |-> "subscribers", to |-> "count"],
     count_unlock |-> [m |-> "stats",       to |-> "loop"]]

(* what control_thread never writes                                        *)
controlOther == <<h, main, env, main_mtu, g_samples_per_packet, g_running, str, rxbuf,
                  fe, sent>>

CL_Lock ==
    /\ ctl.pc \in DOMAIN ControlLocks
    /\ pthread_mutex_lock("control", ControlLocks[ctl.pc].m)
    /\ ctl' = [ctl EXCEPT !.pc = ControlLocks[ctl.pc].to]
    /\ UNCHANGED <<controlOther, g_sdr_config, g_subscribers, g_stats, hist>>

CL_Unlock ==
    /\ ctl.pc \in DOMAIN ControlUnlocks
    /\ pthread_mutex_unlock("control", ControlUnlocks[ctl.pc].m)
    /\ ctl' = [ctl EXCEPT !.pc = ControlUnlocks[ctl.pc].to]
    /\ UNCHANGED <<controlOther, g_sdr_config, g_subscribers, g_stats, hist>>

(* lines 511-516                                                           *)
CL_Frequency ==
    /\ ctl.pc = "cmp_freq"
    /\ g_sdr_config' = IF ctl.new_freq # g_sdr_config.center_freq_hz
                       THEN [g_sdr_config EXCEPT !.center_freq_hz = ctl.new_freq]
                       ELSE g_sdr_config
    /\ ctl' = [pc |-> "cmp_rate", changed |-> ctl.new_freq # g_sdr_config.center_freq_hz]
              @@ ctl
    /\ UNCHANGED <<controlOther, mutex, g_subscribers, g_stats, hist>>

(* lines 518-521                                                           *)
CL_SampleRate ==
    /\ ctl.pc = "cmp_rate"
    /\ g_sdr_config' = IF ctl.new_rate # g_sdr_config.sample_rate_hz
                       THEN [g_sdr_config EXCEPT !.sample_rate_hz = ctl.new_rate]
                       ELSE g_sdr_config
    /\ ctl' = [ctl EXCEPT !.pc = IF ctl.new_rate # g_sdr_config.sample_rate_hz
                                 THEN "set_bw" ELSE "cmp_gain"]
    /\ UNCHANGED <<controlOther, mutex, g_subscribers, g_stats, hist>>

(* lines 522-524                                                           *)
CL_Bandwidth ==
    /\ ctl.pc = "set_bw"
    /\ g_sdr_config' = [g_sdr_config EXCEPT !.bandwidth_hz = Times08(ctl.new_rate)]
    /\ ctl' = [ctl EXCEPT !.pc = "cmp_gain", !.changed = TRUE]
    /\ UNCHANGED <<controlOther, mutex, g_subscribers, g_stats, hist>>

(* lines 526-531                                                           *)
CL_Gain ==
    /\ ctl.pc = "cmp_gain"
    /\ g_sdr_config' = IF ctl.new_gain # g_sdr_config.gain_db
                       THEN [g_sdr_config EXCEPT !.gain_db = ctl.new_gain]
                       ELSE g_sdr_config
    /\ ctl' = [ctl EXCEPT !.pc = "set_flag",
                          !.changed = @ \/ ctl.new_gain # g_sdr_config.gain_db]
    /\ UNCHANGED <<controlOther, mutex, g_subscribers, g_stats, hist>>

(* lines 533-536                                                           *)
CL_Flag ==
    /\ ctl.pc = "set_flag"
    /\ g_sdr_config' = IF ctl.changed
                       THEN [g_sdr_config EXCEPT !.config_changed = TRUE]
                       ELSE g_sdr_config
    /\ ctl' = [ctl EXCEPT !.pc = "upd_unlock"]
    /\ UNCHANGED <<controlOther, mutex, g_subscribers, g_stats, hist>>

(* an early return that leaves the registry locked *)
CL_AddSubscriber_locked ==
    /\ ctl.pc = "scan"
    /\ g_subscribers' = add_subscriber(g_subscribers,
                                       [addr |-> ctl.client_addr, port |-> DATA_PORT])
    /\ ctl' = [ctl EXCEPT !.pc = IF IsEnrolled(g_subscribers, ctl.client_addr, DATA_PORT)
                                 THEN "count" ELSE "add_unlock"]
    /\ UNCHANGED <<controlOther, mutex, g_sdr_config, g_stats, hist>>

(* add_subscriber between its lock and its unlock calls (lines 202-222)    *)
CL_AddSubscriber ==
    /\ ctl.pc = "scan"
    /\ g_subscribers' = add_subscriber(g_subscribers,
                                       [addr |-> ctl.client_addr, port |-> DATA_PORT])
    /\ ctl' = [ctl EXCEPT !.pc = IF IsEnrolled(g_subscribers, ctl.client_addr, DATA_PORT)
                                 THEN "dup_unlock" ELSE "add_unlock"]
    /\ UNCHANGED <<controlOther, mutex, g_sdr_config, g_stats, hist>>

(* line 556                                                                *)
CL_Reconfigs ==
    /\ ctl.pc = "count_inc"
    /\ g_stats' = [g_stats EXCEPT !.reconfigs = @ + 1]
    /\ ctl' = [CtlIdle(ctl.buf) EXCEPT !.pc = "count_unlock"]
    /\ UNCHANGED <<controlOther, mutex, g_sdr_config, g_subscribers, hist>>

(* main's monitor loop and cleanup (lines 919-959)                         *)
mainOther == <<h, env, main_mtu, g_samples_per_packet, g_running, g_sdr_config,
               g_subscribers, g_stats, ctl, str, rxbuf, fe, sent, hist>>

(* while (g_running) and sleep(5), lines 919-920                           *)
M_Loop ==
    /\ main.pc = "monitor"
    /\ main' = [main EXCEPT !.pc = IF g_running THEN "lock" ELSE "join_control"]
    /\ UNCHANGED <<mainOther, mutex>>

(* lines 922-933: the counters are copied to locals that are only printed  *)
M_Lock ==
    /\ main.pc = "lock"
    /\ pthread_mutex_lock("main", "stats")
    /\ main' = [main EXCEPT !.pc = "unlock"]
    /\ UNCHANGED mainOther

(* line 934; lines 936-950 print, reading g_subscriber_count unlocked      *)
M_Unlock ==
    /\ main.pc = "unlock"
    /\ pthread_mutex_unlock("main", "stats")
    /\ main' = [main EXCEPT !.pc = "monitor"]
    /\ UNCHANGED mainOther

(* pthread_join(control_tid), line 954                                     *)
M_JoinControl ==
    /\ main.pc = "join_control"
    /\ ctl.pc = "done"
    /\ main' = [main EXCEPT !.pc = "join_streaming"]
    /\ UNCHANGED <<mainOther, mutex>>

(* pthread_join(streaming_tid), line 955                                   *)
M_JoinStreaming ==
    /\ main.pc = "join_streaming"
    /\ str.pc = "exit"
    /\ main' = [main EXCEPT !.pc = "teardown"]
    /\ UNCHANGED <<mainOther, mutex>>

(* lines 957-962                                                           *)
M_Teardown ==
    /\ main.pc = "teardown"
    /\ main' = [pc |-> "stopped", control_sock |-> "closed", ctx |-> "destroyed"]
    /\ UNCHANGED <<mainOther, mutex>>

(* the position after each lock call of streaming_thread and the functions *)
(* it calls: lines 608, 776, 632, 646, 246, 259, 229 (context), 653 and    *)
(* 724, 669, 691, 695, 229 (data), 740, 749                                *)
StreamingLocks ==
    [tick      |-> [m |-> "config",      to |-> "chk_read"],
     cfg_lock  |-> [m |-> "config",      to |-> "cfg_freq"],
     clrf_lock |-> [m |-> "config",      to |-> "clrf_flag"],
     clr_lock  |-> [m |-> "config",      to |-> "clr_flag"],
     ecp_lock  |-> [m |-> "config",      to |-> "ecp_freq"],
     ecp_slock |-> [m |-> "stats",       to |-> "ecp_stats"],
     ctx_block |-> [m |-> "subscribers", to |-> "ctx_send"],
     ctx_clock |-> [m |-> "stats",       to |-> "ctx_count"],
     rf_lock   |-> [m |-> "stats",       to |-> "rf_count"],
     hl_lock   |-> [m |-> "stats",       to |-> "hl_test"],
     hl_clock  |-> [m |-> "config",      to |-> "hl_rate"],
     dp_block  |-> [m |-> "subscribers", to |-> "dp_send"],
     dp_clock  |-> [m |-> "stats",       to |-> "dp_count"],
     lt_lock   |-> [m |-> "stats",       to |-> "lt_time"]]

(* the position after each unlock call: lines 610, 814, 634, 648, 251,     *)
(* 262, 237 (context), 655 and 726, 672, 697, 718, 237 (data), 743, 758    *)
StreamingUnlocks ==
    [chk_unlock  |-> [m |-> "config",      to |-> "chk_branch"],
     cfg_unlock  |-> [m |-> "config",      to |-> "recreate"],
     clrf_unlock |-> [m |-> "config",      to |-> "loop"],
     clr_unlock  |-> [m |-> "config",      to |-> "ecp_lock"],
     ecp_unlock  |-> [m |-> "config",      to |-> "ecp_slock"],
     ecp_sunlock |-> [m |-> "stats",       to |-> "ctx_block"],
     ctx_bunlock |-> [m |-> "subscribers", to |-> "ctx_clock"],
     ctx_cunlock |-> [m |-> "stats",       to |-> "ctx_done"],
     rf_unlock   |-> [m |-> "stats",       to |-> "loop"],
     hl_cunlock  |-> [m |-> "config",      to |-> "hl_calc"],
     hl_unlock   |-> [m |-> "stats",       to |-> "hl_done"],
     dp_bunlock  |-> [m |-> "subscribers", to |-> "dp_clock"],
     dp_cunlock  |-> [m |-> "stats",       to |-> "chunk"],
     lt_unlock   |-> [m |-> "stats",       to |-> "loop"]]

(* what streaming_thread never writes                                      *)
streamingOther == <<h, main, env, main_mtu, g_samples_per_packet, g_running,
                    g_subscribers, ctl>>

SL_Lock ==
    /\ str.pc \in DOMAIN StreamingLocks
    /\ pthread_mutex_lock("streaming", StreamingLocks[str.pc].m)
    /\ str' = [str EXCEPT !.pc = StreamingLocks[str.pc].to]
    /\ UNCHANGED <<streamingOther, g_sdr_config, g_stats, rxbuf, fe, sent, hist>>

SL_Unlock ==
    /\ str.pc \in DOMAIN StreamingUnlocks
    /\ pthread_mutex_unlock("streaming", StreamingUnlocks[str.pc].m)
    /\ str' = [str EXCEPT !.pc = StreamingUnlocks[str.pc].to]
    /\ UNCHANGED <<streamingOther, g_sdr_config, g_stats, rxbuf, fe, sent, hist>>

(* lines 567-577: the device lookups of streaming_thread and configure_sdr *)
SL_Start ==
    /\ str.pc = "init"
    /\ \E ok \in (IF env.iioFails THEN BOOLEAN ELSE {TRUE}) :
         str' = [str EXCEPT !.pc = IF ok THEN "cfg_lock" ELSE "exit",
                            !.ctx_from = IF ok THEN "init" ELSE "none"]
    /\ UNCHANGED <<streamingOther, mutex, g_sdr_config, g_stats, rxbuf, fe, sent, hist>>

(* line 609                                                                *)
SL_ReadFlag ==
    /\ str.pc = "chk_read"
    /\ str' = [pc |-> "chk_unlock", needs_reconfig |-> g_sdr_config.config_changed] @@ str
    /\ UNCHANGED <<streamingOther, mutex, g_sdr_config, g_stats, rxbuf, fe, sent, hist>>

(* lines 612-622 and 770-774: destroy the buffer, look the phy up          *)
SL_Branch ==
    /\ str.pc = "chk_branch"
    /\ IF str.needs_reconfig
       THEN \E cfg_ok \in (IF env.iioFails THEN BOOLEAN ELSE {TRUE}) :
              /\ rxbuf' = "destroyed"
              /\ str' = [str EXCEPT !.pc = IF cfg_ok THEN "cfg_lock" ELSE "recreate_failed",
                                    !.ctx_from = "none"]
              /\ hist' = [hist EXCEPT !.last_cfg = IF cfg_ok THEN "ok" ELSE "failed",
                                      !.cfg_failed = @ \/ ~cfg_ok]
       ELSE /\ str' = [str EXCEPT !.pc = "refill"]
            /\ UNCHANGED <<rxbuf, hist>>
    /\ UNCHANGED <<streamingOther, mutex, g_sdr_config, g_stats, fe, sent>>

(* lines 779-784                                                           *)
SL_CfgFrequency ==
    /\ str.pc = "cfg_freq"
    /\ fe' = [fe EXCEPT !.frequency = g_sdr_config.center_freq_hz]
    /\ str' = [str EXCEPT !.pc = "cfg_rate"]
    /\ UNCHANGED <<streamingOther, mutex, g_sdr_config, g_stats, rxbuf, sent, hist>>

(* lines 787-791                                                           *)
SL_CfgRate ==
    /\ str.pc = "cfg_rate"
    /\ fe' = [fe EXCEPT !.sampling_frequency = g_sdr_config.sample_rate_hz]
    /\ str' = [str EXCEPT !.pc = "cfg_bw"]
    /\ UNCHANGED <<streamingOther, mutex, g_sdr_config, g_stats, rxbuf, sent, hist>>

(* lines 793-794                                                           *)
SL_CfgBandwidth ==
    /\ str.pc = "cfg_bw"
    /\ fe' = [fe EXCEPT !.rf_bandwidth = g_sdr_config.bandwidth_hz]
    /\ str' = [str EXCEPT !.pc = "cfg_gain"]
    /\ UNCHANGED <<streamingOther, mutex, g_sdr_config, g_stats, rxbuf, sent, hist>>

(* lines 796-812                                                           *)
SL_CfgGain ==
    /\ str.pc = "cfg_gain"
    /\ fe' = [fe EXCEPT !.hardwaregain = RoundTenths(g_sdr_config.gain_db),
                        !.gain_control_mode = "manual"]
    /\ str' = [str EXCEPT !.pc = "cfg_unlock"]
    /\ UNCHANGED <<streamingOther, mutex, g_sdr_config, g_stats, rxbuf, sent, hist>>

(* lines 579-600 at the start, lines 639-643 after a reconfiguration       *)
SL_Recreate ==
    /\ str.pc = "recreate"
    /\ \E buf_ok \in (IF env.iioFails THEN BOOLEAN ELSE {TRUE}) :
         /\ rxbuf' = IF buf_ok THEN "open" ELSE IF str.ctx_from = "init" THEN rxbuf ELSE "null"
         /\ str' = [str EXCEPT !.pc = IF str.ctx_from = "init"
                                      THEN (IF buf_ok THEN "loop" ELSE "exit")
                                      ELSE (IF buf_ok THEN "clr_lock" ELSE "cleanup"),
                               !.ctx_from = "none"]
         /\ hist' = IF str.ctx_from # "init" /\ buf_ok
                    THEN [hist EXCEPT !.await = "context", !.ctx_count = 0]
                    ELSE hist
    /\ UNCHANGED <<streamingOther, mutex, g_sdr_config, g_stats, fe, sent>>

(* a recovery that goes on without a buffer *)
SL_RecreateFailed_no_stop ==
    /\ str.pc = "recreate_failed"
    /\ \E buf_ok \in BOOLEAN :
         /\ rxbuf' = IF buf_ok THEN "open" ELSE "null"
         /\ str' = [str EXCEPT !.pc = "clrf_lock"]
    /\ UNCHANGED <<streamingOther, mutex, g_sdr_config, g_stats, fe, sent, hist>>

(* lines 626-630                                                           *)
SL_RecreateFailed ==
    /\ str.pc = "recreate_failed"
    /\ \E buf_ok \in BOOLEAN :
         /\ rxbuf' = IF buf_ok THEN "open" ELSE "null"
         /\ str' = [str EXCEPT !.pc = IF buf_ok THEN "clrf_lock" ELSE "cleanup"]
    /\ UNCHANGED <<streamingOther, mutex, g_sdr_config, g_stats, fe, sent, hist>>

(* line 633                                                                *)
SL_ClearFailed ==
    /\ str.pc = "clrf_flag"
    /\ g_sdr_config' = [g_sdr_config EXCEPT !.config_changed = FALSE]
    /\ str' = [str EXCEPT !.pc = "clrf_unlock"]
    /\ UNCHANGED <<streamingOther, mutex, g_stats, rxbuf, fe, sent, hist>>

(* line 647                                                                *)
SL_ClearOk ==
    /\ str.pc = "clr_flag"
    /\ g_sdr_config' = [g_sdr_config EXCEPT !.config_changed = FALSE]
    /\ str' = [str EXCEPT !.pc = "clr_unlock", !.ctx_from = "reconfigure"]
    /\ UNCHANGED <<streamingOther, mutex, g_stats, rxbuf, fe, sent, hist>>

(* encode_context_packet, lines 247-250, one read each                     *)
SL_SnapFrequency ==
    /\ str.pc = "ecp_freq"
    /\ str' = [str EXCEPT !.pc = "ecp_rate",
                          !.snap.center_freq_hz = g_sdr_config.center_freq_hz]
    /\ UNCHANGED <<streamingOther, mutex, g_sdr_config, g_stats, rxbuf, fe, sent, hist>>

SL_SnapRate ==
    /\ str.pc = "ecp_rate"
    /\ str' = [str EXCEPT !.pc = "ecp_bw",
                          !.snap.sample_rate_hz = g_sdr_config.sample_rate_hz]
    /\ UNCHANGED <<streamingOther, mutex, g_sdr_config, g_stats, rxbuf, fe, sent, hist>>

SL_SnapBandwidth ==
    /\ str.pc = "ecp_bw"
    /\ str' = [str EXCEPT !.pc = "ecp_gain",
                          !.snap.bandwidth_hz = g_sdr_config.bandwidth_hz]
    /\ UNCHANGED <<streamingOther, mutex, g_sdr_config, g_stats, rxbuf, fe, sent, hist>>

(* an encoder that keeps the configuration mutex while it reads the      *)
(* health counters                                                        *)
SL_SnapGain_keep_config ==
    /\ str.pc = "ecp_gain"
    /\ str' = [str EXCEPT !.pc = "ecp_slock", !.snap.gain_db = g_sdr_config.gain_db]
    /\ UNCHANGED <<streamingOther, mutex, g_sdr_config, g_stats, rxbuf, fe, sent, hist>>

SL_SnapGain ==
    /\ str.pc = "ecp_gain"
    /\ str' = [str EXCEPT !.pc = "ecp_unlock", !.snap.gain_db = g_sdr_config.gain_db]
    /\ UNCHANGED <<streamingOther, mutex, g_sdr_config, g_stats, rxbuf, fe, sent, hist>>

(* lines 253-353: the health counters and the packet                       *)
SL_EncodeStats ==
    /\ str.pc = "ecp_stats"
    /\ str' = [str EXCEPT !.pc = "ecp_sunlock",
                          !.packet_buf = ContextBuf(encode_context_packet(
                                             str.snap, g_stats.underflows,
                                             g_stats.overflows, ClockReading)),
                          !.packet_len = 56,
                          !.snap = NoSnap]
    /\ UNCHANGED <<streamingOther, mutex, g_sdr_config, g_stats, rxbuf, fe, sent, hist>>

(* broadcast_to_subscribers between its lock and unlock calls, for the     *)
(* context packet (lines 652 and 723)                                      *)
SL_CtxSend ==
    /\ str.pc = "ctx_send"
    /\ sent' = [call |-> "context", buf |-> str.packet_buf, len |-> str.packet_len,
                dests |-> broadcast_to_subscribers(g_subscribers)]
    /\ str' = [str EXCEPT !.pc = "ctx_bunlock"]
    /\ hist' = NoteSend([hist EXCEPT !.ctx_count = IF hist.await = "context" /\ @ < 2
                                                   THEN @ + 1 ELSE @,
                                     !.periodic = @ \/ (str.ctx_from = "periodic"),
                                     !.data_since_context = 0])
    /\ UNCHANGED <<streamingOther, mutex, g_sdr_config, g_stats, rxbuf, fe>>

(* lines 654 and 725                                                       *)
SL_CtxCount ==
    /\ str.pc = "ctx_count"
    /\ g_stats' = [g_stats EXCEPT !.contexts_sent = Counted(@)]
    /\ str' = [str EXCEPT !.pc = "ctx_cunlock"]
    /\ UNCHANGED <<streamingOther, mutex, g_sdr_config, rxbuf, fe, sent, hist>>

(* lines 661 and 727                                                       *)
SL_CtxDone ==
    /\ str.pc = "ctx_done"
    /\ str' = [str EXCEPT !.pc = IF str.ctx_from = "reconfigure" THEN "refill" ELSE "chunk",
                          !.packets_since_context = 0,
                          !.ctx_from = "none"]
    /\ UNCHANGED <<streamingOther, mutex, g_sdr_config, g_stats, rxbuf, fe, sent, hist>>

(* lines 666-686                                                           *)
SL_Refill ==
    /\ str.pc = "refill"
    /\ \/ /\ g_stats.refill_failures < env.maxRefillFailures
          /\ str' = [str EXCEPT !.pc = "rf_lock"]
       \/ /\ env.iioFails
          /\ str' = [str EXCEPT !.pc = "loop"]
       \/ /\ env.capRefills => hist.refills < env.maxRefills
          /\ \E n \in env.refills :
               str' = [str EXCEPT !.pc = "hl_lock", !.num_samples = n]
    /\ hist' = IF str'.pc = "hl_lock" /\ env.capRefills
               THEN [hist EXCEPT !.refills = @ + 1] ELSE hist
    /\ UNCHANGED <<streamingOther, mutex, g_sdr_config, g_stats, rxbuf, fe, sent>>

(* lines 670-671                                                           *)
SL_RefillFailures ==
    /\ str.pc = "rf_count"
    /\ g_stats' = [g_stats EXCEPT !.refill_failures = @ + 1]
    /\ str' = [str EXCEPT !.pc = "rf_unlock"]
    /\ UNCHANGED <<streamingOther, mutex, g_sdr_config, rxbuf, fe, sent, hist>>

(* line 692, and line 717 when there is no earlier timestamp               *)
SL_HealthTest ==
    /\ str.pc = "hl_test"
    /\ IF g_stats.last_timestamp_set
       THEN /\ str' = [str EXCEPT !.pc = "hl_clock"]
            /\ UNCHANGED g_stats
       ELSE /\ str' = [str EXCEPT !.pc = "hl_unlock"]
            /\ g_stats' = [g_stats EXCEPT !.last_timestamp_set = TRUE]
    /\ UNCHANGED <<streamingOther, mutex, g_sdr_config, rxbuf, fe, sent, hist>>

(* line 696                                                                *)
SL_HealthRate ==
    /\ str.pc = "hl_rate"
    /\ str' = [pc |-> "hl_cunlock", sample_rate |-> g_sdr_config.sample_rate_hz] @@ str
    /\ UNCHANGED <<streamingOther, mutex, g_sdr_config, g_stats, rxbuf, fe, sent, hist>>

(* lines 699-717                                                           *)
SL_HealthCalc ==
    /\ str.pc = "hl_calc"
    /\ IF str.sample_rate = Zeros(8)
       THEN /\ str' = [str EXCEPT !.pc = "crashed"]
            /\ UNCHANGED g_stats
       ELSE \E delta_error \in DeltaErrors :
            LET error == DeltaClass(delta_error) IN
              /\ error # "none" => g_stats.timestamp_jumps < env.maxJumps
              /\ g_stats' = TimestampJump(g_stats, error)
              /\ str' = [str EXCEPT !.pc = "hl_unlock"]
    /\ UNCHANGED <<streamingOther, mutex, g_sdr_config, rxbuf, fe, sent, hist>>

(* line 721                                                                *)
SL_HealthDone ==
    /\ str.pc = "hl_done"
    /\ str' = [str EXCEPT !.pc = IF str.packets_since_context >= CONTEXT_INTERVAL
                                 THEN "ecp_lock" ELSE "chunk",
                          !.ctx_from = IF str.packets_since_context >= CONTEXT_INTERVAL
                                       THEN "periodic" ELSE "none",
                          !.offset = 0]
    /\ UNCHANGED <<streamingOther, mutex, g_sdr_config, g_stats, rxbuf, fe, sent, hist>>

(* lines 731-736                                                           *)
SL_Encode ==
    /\ str.pc = "chunk"
    /\ str.offset < str.num_samples
    /\ LET e == encode_data_packet(str.packet_buf, ChunkSize(str.offset, str.num_samples),
                                   str.packet_count, ClockReading)
       IN  str' = [str EXCEPT !.pc = "dp_block",
                              !.packet_buf = e.buf,
                              !.packet_len = e.len,
                              !.packet_count = e.packet_count]
    /\ UNCHANGED <<streamingOther, mutex, g_sdr_config, g_stats, rxbuf, fe, sent, hist>>

(* broadcast_to_subscribers between its lock and unlock calls, line 738    *)
SL_DataSend ==
    /\ str.pc = "dp_send"
    /\ sent' = [call |-> "data", buf |-> str.packet_buf, len |-> str.packet_len,
                dests |-> broadcast_to_subscribers(g_subscribers)]
    /\ str' = [str EXCEPT !.pc = "dp_bunlock"]
    /\ hist' = NoteSend([hist EXCEPT
                            !.await = IF @ = "context" THEN "done" ELSE @,
                            !.data_emitted = IF str.packet_len > 0 THEN (@ + 1) % 16 ELSE @,
                            !.data_since_context = IF str.packet_len > 0
                                                   THEN Min(@ + 1, env.maxSinceContext)
                                                   ELSE @])
    /\ UNCHANGED <<streamingOther, mutex, g_sdr_config, g_stats, rxbuf, fe>>

(* lines 741-742, with lines 744 and 731 that follow the unlock            *)
SL_DataCount ==
    /\ str.pc = "dp_count"
    /\ g_stats' = [g_stats EXCEPT !.packets_sent = Counted(@),
                                  !.bytes_sent = CountedBytes(g_stats.packets_sent, @,
                                                             str.packet_len)]
    /\ str' = [str EXCEPT !.pc = "dp_cunlock",
                          !.packets_since_context = Min(@ + 1, env.maxSinceContext),
                          !.offset = @ + g_samples_per_packet]
    /\ UNCHANGED <<streamingOther, mutex, g_sdr_config, rxbuf, fe, sent, hist>>

(* line 731 when the block is done, and line 748                           *)
SL_LoopEnd ==
    /\ str.pc = "chunk"
    /\ str.offset >= str.num_samples
    /\ str' = [str EXCEPT !.pc = "lt_lock", !.num_samples = 0, !.offset = 0]
    /\ UNCHANGED <<streamingOther, mutex, g_sdr_config, g_stats, rxbuf, fe, sent, hist>>

(* lines 750-757: the loop timings                                         *)
SL_LoopTime ==
    /\ str.pc = "lt_time"
    /\ str' = [str EXCEPT !.pc = "lt_unlock"]
    /\ UNCHANGED <<streamingOther, mutex, g_sdr_config, g_stats, rxbuf, fe, sent, hist>>

(* The program at the level of lock calls: one client that sends the same  *)
(* request twice (the second time it is enrolled already), a radio that    *)
(* may fail, main's monitor loop, and two refills so that the              *)
(* discontinuity check has an earlier timestamp to compare with.  The      *)
(* refills are short ones, of ShortRefill samples: two data packets each.  *)
ShortRefill == 4096

EnvLock ==
    [nAddrs |-> 1, dgrams |-> {RequestB},
     maxDatagrams |-> 2, maxRefillFailures |-> 1,
     maxJumps |-> 0, refills |-> {ShortRefill},
     capRefills |-> TRUE, maxRefills |-> 2,
     mtus |-> {MTU_JUMBO}, iioFails |-> TRUE,
     maxSinceContext |-> MaxSinceContext,
     stack |-> {ZeroStack}]

InitLock ==
    /\ h = [op |-> "idle"]
    /\ ProgramInit(EnvLock)

NextLock ==
    \/ C_Loop \/ C_Timeout \/ C_Recv
    \/ CL_Lock \/ CL_Unlock \/ CL_Frequency \/ CL_SampleRate \/ CL_Bandwidth \/ CL_Gain
    \/ CL_Flag \/ CL_AddSubscriber \/ CL_Reconfigs
    \/ Signal
    \/ M_Loop \/ M_Lock \/ M_Unlock \/ M_JoinControl \/ M_JoinStreaming
    \/ M_Teardown
    \/ S_Loop \/ S_NoCheck \/ S_Cleanup
    \/ SL_Lock \/ SL_Unlock \/ SL_Start \/ SL_ReadFlag \/ SL_Branch
    \/ SL_CfgFrequency \/ SL_CfgRate \/ SL_CfgBandwidth \/ SL_CfgGain
    \/ SL_Recreate \/ SL_RecreateFailed \/ SL_ClearFailed \/ SL_ClearOk
    \/ SL_SnapFrequency \/ SL_SnapRate \/ SL_SnapBandwidth \/ SL_SnapGain
    \/ SL_EncodeStats \/ SL_CtxSend \/ SL_CtxCount \/ SL_CtxDone
    \/ SL_Refill \/ SL_RefillFailures \/ SL_HealthTest \/ SL_HealthRate
    \/ SL_HealthCalc \/ SL_HealthDone \/ SL_Encode \/ SL_DataSend \/ SL_DataCount
    \/ SL_LoopEnd \/ SL_LoopTime

SpecLock == InitLock /\ [][NextLock]_vars

-----------------------------------------------------------------------------
(* Properties of the configuration snapshot                                *)

StoreTuple ==
    [center_freq_hz |-> g_sdr_config.center_freq_hz,
     sample_rate_hz |-> g_sdr_config.sample_rate_hz,
     bandwidth_hz   |-> g_sdr_config.bandwidth_hz,
     gain_db        |-> g_sdr_config.gain_db]

-----------------------------------------------------------------------------
(* Properties of the statistics counters                                   *)

(* C12: while the subscriber registry is empty (it never shrinks, so it    *)
(* has been empty all along), packets_sent and bytes_sent are 0.           *)
C12_EmptyRegistryCountsNothing ==
    g_subscribers = <<>> =>
        /\ g_stats.packets_sent = 0
        /\ g_stats.bytes_sent = 0

-----------------------------------------------------------------------------
(* Properties of a request as its sender sees it                           *)

(* C13: the one client (source address 1, not enrolled before) asks for    *)
(* 100 MHz.  The context packet broadcast on completing the                *)
(* reconfiguration for that request is sent to the client's address at     *)
(* DATA_PORT and carries 100 MHz.                                          *)
C13_ContextReachesRequester ==
    (sent.call = "context" /\ hist.await = "context" /\ hist.ctx_count = 1) =>
        /\ \E i \in 1..Len(sent.dests) : sent.dests[i] = [addr |-> 1, port |-> DATA_PORT]
        /\ FieldAt(sent.buf.head, 32) = NatToNibs(100000000, 16)

-----------------------------------------------------------------------------
(* Properties of the decoder on foreign input                              *)

(* C14: a datagram whose CIF has a bit outside {29, 27, 23, 21, 19} is a   *)
(* parse failure: parse_context_packet returns an error and leaves its     *)
(* three outputs as they were.                                             *)
C14_UnknownBitsRejected ==
    h.op = "parsed_unknown" =>
        /\ h.out.rc # 0
        /\ h.out.freq_hz = OutFreq0
        /\ h.out.rate_hz = OutRate0
        /\ h.out.gain_db = OutGain0

(* C15: g_stats.send_failures equals the number of sendto calls that have  *)
(* failed so far (counted up to MaxCounted).                               *)
C15_SendFailuresCounted ==
    g_stats.send_failures = hist.failed_sends

-----------------------------------------------------------------------------
(* Properties of the context cadence                                       *)

(* C16: in a run without any reconfiguration, when a periodic context     *)
(* packet is about to be broadcast and an earlier one has been broadcast,  *)
(* exactly CONTEXT_INTERVAL data packets have been broadcast since that    *)
(* earlier context packet.                                                 *)
C16_ContextCadence ==
    (/\ str.pc = "ctx_send" /\ str.ctx_from = "periodic"
     /\ hist.periodic /\ hist.await = "none") =>
        hist.data_since_context = CONTEXT_INTERVAL

-----------------------------------------------------------------------------
(* The program with its scheduling, started with --mtu 52: an MTU that     *)
(* just holds the headers (IP_UDP_OVERHEAD + VITA49_OVERHEAD), for which   *)
(* main warns and goes on (lines 849-866).  No control traffic, a healthy  *)
(* radio whose refill may fail once, main's monitor loop and cleanup.      *)
(* Every thread that can take a step eventually takes one: recvfrom        *)
(* returns after its 1 s timeout (lines 477-481), iio_buffer_refill and    *)
(* sleep(5) return, and no step here waits for another thread except       *)
(* pthread_join.  Line 721 is reached once, with packets_since_context     *)
(* = 0: the packetize loop that follows has no end (S_LoopEnd is never     *)
(* enabled), so the counter is not read again and is kept to 1.            *)
SmallestMtu == IP_UDP_OVERHEAD + VITA49_OVERHEAD

EnvLive ==
    [nAddrs |-> 0, dgrams |-> {},
     maxDatagrams |-> 0, maxRefillFailures |-> 1,
     maxJumps |-> 0, refills |-> {DEFAULT_BUFFER_SIZE},
     capRefills |-> FALSE, maxRefills |-> 0,
     mtus |-> {SmallestMtu}, iioFails |-> FALSE,
     maxSinceContext |-> 1,
     stack |-> {ZeroStack}]

InitLive ==
    /\ h = [op |-> "idle"]
    /\ ProgramInit(EnvLive)

ControlStep == C_Loop \/ C_Timeout

StreamingStep ==
    \/ S_Start \/ S_Loop \/ S_NoCheck \/ S_Check
    \/ S_Refill \/ S_Health \/ S_Chunk \/ S_Cleanup

MainStep ==
    \/ M_Loop \/ M_Lock \/ M_Unlock \/ M_JoinControl \/ M_JoinStreaming
    \/ M_Teardown

NextLive ==
    \/ C_Loop \/ C_Timeout
    \/ Signal
    \/ S_Start \/ S_Loop \/ S_NoCheck \/ S_Check
    \/ S_Refill \/ S_Health \/ S_Chunk \/ S_Cleanup
    \/ M_Loop \/ M_Lock \/ M_Unlock \/ M_JoinControl \/ M_JoinStreaming
    \/ M_Teardown

SpecLive ==
    /\ InitLive
    /\ [][NextLive]_vars
    /\ WF_vars(ControlStep)
    /\ WF_vars(StreamingStep)
    /\ WF_vars(MainStep)

(* C17: cooperative shutdown.  Once g_running is false, control_thread and *)
(* streaming_thread both return, and main closes the control socket and    *)
(* destroys the IIO context only when both have returned.                  *)
C17_CooperativeShutdown ==
    /\ (~g_running) ~> (ctl.pc = "done" /\ str.pc = "exit")
    /\ [](main.control_sock = "closed" => (ctl.pc = "done" /\ str.pc = "exit"))

-----------------------------------------------------------------------------
(* Properties of the locking                                               *)

Threads == {"control", "streaming", "main"}

(* the mutex a thread is about to lock, "none" if it is not at a lock call *)
Wants(t) ==
    IF t = "control" /\ ctl.pc \in DOMAIN ControlLocks THEN ControlLocks[ctl.pc].m
    ELSE IF t = "streaming" /\ str.pc \in DOMAIN StreamingLocks
         THEN StreamingLocks[str.pc].m
    ELSE IF t = "main" /\ main.pc = "lock" THEN "stats"
    ELSE "none"

(* t is at a lock call for a mutex that u owns                             *)
WaitsFor(t, u) == Wants(t) # "none" /\ mutex[Wants(t)] = u

WaitCycle ==
    \/ \E t \in Threads : WaitsFor(t, t)
    \/ \E t, u \in Threads : t # u /\ WaitsFor(t, u) /\ WaitsFor(u, t)
    \/ \E t, u, v \in Threads :
         /\ t # u /\ u # v /\ v # t
         /\ WaitsFor(t, u) /\ WaitsFor(u, v) /\ WaitsFor(v, t)

(* C18: deadlock freedom.  No set of threads waits in a cycle for mutexes  *)
(* the others own; no two mutexes are ever locked one inside the other in  *)
(* both orders; every unlock call is made by the owner; and a thread that  *)
(* is at the top of its loop, between two of its critical sections, or has *)
(* returned, owns no mutex.                                                *)
C18_DeadlockFree ==
    /\ ~WaitCycle
    /\ \A p \in mutex.nested : <<p[2], p[1]>> \notin mutex.nested
    /\ ctl.pc \in DOMAIN ControlUnlocks => mutex[ControlUnlocks[ctl.pc].m] = "control"
    /\ str.pc \in DOMAIN StreamingUnlocks =>
           mutex[StreamingUnlocks[str.pc].m] = "streaming"
    /\ main.pc = "unlock" => mutex.stats = "main"
    /\ ctl.pc \in {"loop", "recv", "done", "update", "enrol", "count"} =>
           Held("control") = {}
    /\ str.pc \in {"init", "loop", "tick", "refill", "chunk", "cleanup", "exit",
                   "chk_branch", "recreate", "recreate_failed", "ctx_done", "hl_done"} =>
           Held("streaming") = {}
    /\ main.pc \notin {"unlock"} => Held("main") = {}

(* add_subscriber is about to return early for the enrolled client while   *)
(* streaming_thread owns two mutexes and main waits for one of them        *)
C18_Witness ==
    /\ ctl.pc = "dup_unlock"
    /\ Held("control") = {"subscribers"}
    /\ Held("streaming") = {"stats", "config"}
    /\ main.pc = "lock"
    /\ WaitsFor("main", "streaming")


(* the positions of one thread between the two lock calls of a nested pair *)
(* and the first of the two unlock calls                                   *)
HealthNested == {"hl_rate", "hl_cunlock"}

(* the positions of encode_context_packet (lines 246-262)                  *)
EncoderPositions == {"ecp_lock", "ecp_freq", "ecp_rate", "ecp_bw", "ecp_gain",
                     "ecp_unlock", "ecp_slock", "ecp_stats", "ecp_sunlock"}

(* C19: lock nesting discipline.  The only place where a thread owns two   *)
(* mutexes at once is the health monitoring after a refill, which locks    *)
(* the configuration mutex while it owns the statistics mutex; everywhere  *)
(* else (context encoder, control update, broadcast, statistics printing)  *)
(* a thread owns at most one of the three mutexes.                         *)
C19_NestingDiscipline ==
    /\ mutex.nested \subseteq {<<"stats", "config">>}
    /\ Cardinality(Held("control")) <= 1
    /\ Cardinality(Held("main")) <= 1
    /\ IF str.pc \in HealthNested
       THEN Held("streaming") = {"stats", "config"}
       ELSE Cardinality(Held("streaming")) <= 1
    /\ str.pc \in EncoderPositions => Cardinality(Held("streaming")) <= 1

(* the health monitoring owns both mutexes after at least one context      *)
(* packet was encoded                                                      *)
C19_Witness ==
    /\ str.pc = "hl_rate"
    /\ Held("streaming") = {"stats", "config"}
    /\ mutex.nested = {<<"stats", "config">>}
    /\ g_stats.contexts_sent > 0

(* C19 as stated: two mutexes are owned at once only inside the context    *)
(* encoder, statistics inside configuration, and the health monitoring     *)
(* owns at most one                                                        *)
C19_EncoderOnlyNesting ==
    /\ mutex.nested \subseteq {<<"config", "stats">>}
    /\ \A t \in Threads :
         Cardinality(Held(t)) >= 2 => (t = "streaming" /\ str.pc \in EncoderPositions)


(* C20: the context packet sent right after a successful reconfiguration   *)
(* carries the frequency, sample rate and bandwidth that the configure     *)
(* call of that reconfiguration wrote to the front-end, whatever           *)
(* control_thread stored in between.                                       *)
C20_ContextMatchesApplied ==
    (sent.call = "context" /\ hist.await = "context" /\ hist.ctx_count = 1) =>
        /\ FieldAt(sent.buf.head, 32) = fe.frequency
        /\ Low32(FieldAt(sent.buf.head, 44)) = fe.sampling_frequency
        /\ Low32(FieldAt(sent.buf.head, 24)) = fe.rf_bandwidth

-----------------------------------------------------------------------------
(* control_thread alone, under every kind of datagram: requests that       *)
(* change one field, all fields or none, a request for a sample rate of    *)
(* 0, a datagram too short to parse, and a datagram cut after its CIF word *)

MaxCtlDatagrams == 3

RequestDefault == Request(DEFAULT_FREQ_HZ, DEFAULT_RATE_HZ, DEFAULT_GAIN_DB)
RequestZeroRate == Request(DEFAULT_FREQ_HZ, Zeros(8), DEFAULT_GAIN_DB)
ShortDatagram == SubSeq(RequestA, 1, 27)
TruncatedDatagram == SubSeq(RequestB, 1, 28)

EnvCtl ==
    [nAddrs |-> 1,
     dgrams |-> {RequestA, RequestB, RequestDefault, RequestZeroRate,
                 ShortDatagram, TruncatedDatagram},
     maxDatagrams |-> MaxCtlDatagrams, maxRefillFailures |-> 0,
     maxJumps |-> 0, refills |-> {}, capRefills |-> TRUE, maxRefills |-> 0,
     mtus |-> {MTU_STANDARD}, iioFails |-> FALSE,
     maxSinceContext |-> MaxSinceContext,
     stack |-> {ZeroStack, OnesStack}]

InitCtl ==
    /\ h = [op |-> "idle"]
    /\ ProgramInit(EnvCtl)

NextCtl ==
    \/ C_Loop \/ C_Timeout \/ C_Recv \/ C_Update \/ C_Enrol \/ C_Count
    \/ Signal

SpecCtl == InitCtl /\ [][NextCtl]_vars

(* the decoded values differ from the store                                *)
Differs ==
    \/ ctl.new_freq # g_sdr_config.center_freq_hz
    \/ ctl.new_rate # g_sdr_config.sample_rate_hz
    \/ ctl.new_gain # g_sdr_config.gain_db

(* C21: configuration writer.  The step of control_thread that follows a   *)
(* successful parse leaves the store holding the decoded frequency, rate   *)
(* and gain, recomputes the bandwidth as 0.8 x rate exactly when the rate  *)
(* differed, and raises the flag exactly when a field differed (a flag     *)
(* already raised stays raised); every other step of control_thread, the   *)
(* one after a failed parse included, leaves the whole store unchanged.    *)
C21_ConfigurationWriter ==
    [][ /\ (ctl.pc = "update" /\ ctl'.pc = "enrol") =>
            /\ g_sdr_config'.center_freq_hz = ctl.new_freq
            /\ g_sdr_config'.sample_rate_hz = ctl.new_rate
            /\ g_sdr_config'.gain_db = ctl.new_gain
            /\ g_sdr_config'.bandwidth_hz =
                   IF ctl.new_rate # g_sdr_config.sample_rate_hz
                   THEN Times08(ctl.new_rate) ELSE g_sdr_config.bandwidth_hz
            /\ g_sdr_config'.config_changed = (g_sdr_config.config_changed \/ Differs)
            /\ ~Differs => g_sdr_config' = g_sdr_config
        /\ ~(ctl.pc = "update" /\ ctl'.pc = "enrol") => g_sdr_config' = g_sdr_config
      ]_vars

(* the first datagram asked for 915 MHz only: the frequency is stored,     *)
(* rate, bandwidth and gain are the defaults, the flag is raised           *)
C21_Witness ==
    /\ ctl.pc = "enrol"
    /\ ctl.recv_len = 56
    /\ hist.datagrams = 1
    /\ g_sdr_config = [center_freq_hz |-> NatToNibs(915000000, 16),
                       sample_rate_hz |-> DEFAULT_RATE_HZ,
                       bandwidth_hz   |-> Times08(DEFAULT_RATE_HZ),
                       gain_db        |-> DEFAULT_GAIN_DB,
                       config_changed |-> TRUE]


-----------------------------------------------------------------------------
(* Properties of the reconfiguration                                       *)

(* the positions of streaming_thread between a failed configure_sdr and    *)
(* the continue of line 635                                                *)
FailurePath == {"recreate_failed", "clrf_lock", "clrf_flag", "clrf_unlock"}

(* the positions after the break of lines 629 and 642: before line 761,    *)
(* returned, or dead in the iio_buffer_destroy of line 764                 *)
Stopped == {"cleanup", "exit", "crashed"}

(* C22: reconfiguration failure handling.  A failed configure_sdr leaves   *)
(* the front-end as it was and leads to the re-creation of the buffer;     *)
(* from there to the top of the loop nothing is sent and the front-end is  *)
(* not written; the thread goes on to the top of the loop exactly when     *)
(* the buffer was re-created and stops otherwise; a buffer that cannot be  *)
(* re-created after a successful configure_sdr stops the thread as well;   *)
(* a stopped thread stays stopped and sends nothing.                       *)
C22_FailureHandling ==
    [][ str' # str =>
          /\ (str.pc = "chk_branch" /\ str'.pc = "recreate_failed") => fe' = fe
          /\ str.pc \in FailurePath =>
                 /\ fe' = fe
                 /\ sent' = sent
                 /\ str'.pc \in FailurePath \cup {"loop", "cleanup"}
          /\ str.pc = "recreate_failed" =>
                 \/ str'.pc = "clrf_lock" /\ rxbuf' = "open"
                 \/ str'.pc = "cleanup" /\ rxbuf' = "null"
          /\ (str.pc = "recreate" /\ str.ctx_from # "init") =>
                 \/ str'.pc = "clr_lock" /\ rxbuf' = "open"
                 \/ str'.pc = "cleanup" /\ rxbuf' = "null"
          /\ str.pc \in Stopped => (str'.pc \in Stopped /\ sent' = sent)
      ]_vars

(* back at the top of the loop after a failed configure_sdr: the buffer is *)
(* open, the flag is clear, the store holds the requested 100 MHz and the  *)
(* front-end still runs at the default frequency                           *)
C22_Witness ==
    /\ str.pc = "loop"
    /\ hist.last_cfg = "failed"
    /\ rxbuf = "open"
    /\ ~g_sdr_config.config_changed
    /\ g_sdr_config.center_freq_hz = NatToNibs(100000000, 16)
    /\ fe.frequency = DEFAULT_FREQ_HZ
    /\ sent.call # "context"


-----------------------------------------------------------------------------
(* streaming_thread alone over several refills whose timing may be off in  *)
(* either direction                                                        *)

MaxHealthRefills == 4
MaxHealthJumps == 2

EnvHealth ==
    [nAddrs |-> 0, dgrams |-> {},
     maxDatagrams |-> 0, maxRefillFailures |-> MaxRefillFailures,
     maxJumps |-> MaxHealthJumps, refills |-> {ShortRefill},
     capRefills |-> TRUE, maxRefills |-> MaxHealthRefills,
     mtus |-> {MTU_JUMBO}, iioFails |-> FALSE,
     maxSinceContext |-> MaxCounted,
     stack |-> {ZeroStack}]

InitHealth ==
    /\ h = [op |-> "idle"]
    /\ ProgramInit(EnvHealth)

NextHealth ==
    \/ Signal
    \/ S_Start \/ S_Loop \/ S_NoCheck \/ S_Check
    \/ S_Refill \/ S_Health \/ S_Chunk \/ S_LoopEnd \/ S_Cleanup

SpecHealth == InitHealth /\ [][NextHealth]_vars

(* C23: health counters.  The check classifies a discrepancy as a jump     *)
(* exactly when it is more than 10 ms either way, late when positive and   *)
(* early when negative; the step that makes the check adds the same 0 or 1 *)
(* to timestamp_jumps as to underflows and overflows together, and 1 to at *)
(* most one of the two; no other step changes the three counters; so       *)
(* timestamp_jumps = underflows + overflows always, and none decreases.    *)
C23_HealthCounters ==
    /\ \A d \in DeltaErrors :
         /\ DeltaClass(d) = "late"  <=> d > 10000
         /\ DeltaClass(d) = "early" <=> d < -10000
         /\ DeltaClass(d) = "none"  <=> (d >= -10000 /\ d <= 10000)
    /\ [](g_stats.timestamp_jumps = g_stats.underflows + g_stats.overflows)
    /\ [][ LET dj == g_stats'.timestamp_jumps - g_stats.timestamp_jumps
               du == g_stats'.underflows - g_stats.underflows
               do == g_stats'.overflows - g_stats.overflows
           IN  /\ dj \in {0, 1} /\ du \in {0, 1} /\ do \in {0, 1}
               /\ dj = du + do
               /\ dj = 1 => (str.pc = "health" /\ str'.pc \in {"chunk", "ctx_snap"}
                             /\ g_stats.last_timestamp_set)
       ]_vars

(* one late and one early refill have been counted                         *)
C23_Witness ==
    /\ g_stats.timestamp_jumps = 2
    /\ g_stats.underflows = 1
    /\ g_stats.overflows = 1
    /\ str.pc = "chunk"


(* the datagram control_thread is working on, if any                       *)
InHand == IF ctl.pc \in {"update", "enrol", "count"} THEN 1 ELSE 0

(* C24: the reconfigurations counter.  It equals the number of datagrams   *)
(* recvfrom has returned, less the one being worked on; it grows by one in *)
(* the last step of the work on a datagram, parsed or not, changing values *)
(* or not, and in no other step; a receive time-out leaves it alone.       *)
C24_ReconfigsCounter ==
    /\ [](g_stats.reconfigs = hist.datagrams - InHand)
    /\ [][ /\ g_stats'.reconfigs # g_stats.reconfigs =>
                /\ g_stats'.reconfigs = g_stats.reconfigs + 1
                /\ ctl.pc = "count" /\ ctl'.pc = "loop"
           /\ (ctl.pc = "recv" /\ ctl'.pc = "loop") =>
                (g_stats' = g_stats /\ hist'.datagrams = hist.datagrams)
       ]_vars

(* three datagrams were counted: one that changed the store, one that did  *)
(* not parse and one that asked for what the store already held            *)
C24_Witness ==
    /\ g_stats.reconfigs = 3
    /\ hist.datagrams = 3
    /\ ctl.pc = "loop"
    /\ ctl.buf = Overlay(ShortDatagram, RequestA)
    /\ g_sdr_config.center_freq_hz = NatToNibs(915000000, 16)
    /\ g_sdr_config.sample_rate_hz = DEFAULT_RATE_HZ


(* the offset one past the last byte parse_context_packet reads from a     *)
(* buffer (lines 428-465): the CIF word, then each field its CIF declares  *)
ReadEnd(buf) ==
    LET cif == Load32(buf, 20)
        p1  == IF BitSet(cif, CIF_BANDWIDTH) THEN 24 + 8 ELSE 24
        p2  == IF BitSet(cif, CIF_FREQUENCY) THEN p1 + 8 ELSE p1
        p3  == IF BitSet(cif, CIF_GAIN) THEN p2 + 4 ELSE p2
        e1  == 24
        e2  == IF BitSet(cif, CIF_FREQUENCY) THEN p1 + 8 ELSE e1
        e3  == IF BitSet(cif, CIF_GAIN) THEN p2 + 2 ELSE e2
    IN  IF BitSet(cif, CIF_SAMPLE_RATE) THEN p3 + 8 ELSE e3

(* C25: decoder bounds.  A datagram that parse_context_packet accepted was *)
(* decoded from its own bytes only: the decoder read no byte at or past    *)
(* offset recv_len of the receive buffer.                                  *)
C25_DecoderBounds ==
    (ctl.pc = "update" /\ ctl.recv_len >= 28) => ReadEnd(ctl.buf) <= ctl.recv_len


(* C26: the sample rate held in the store is never 0, whatever datagrams   *)
(* arrive.                                                                 *)
C26_RateNonZero == g_sdr_config.sample_rate_hz # Zeros(8)


(* C27: packetization terminates.  A streaming_thread that has entered    *)
(* the packetize loop with a refill of num_samples samples gets back to    *)
(* the top of its outer loop.                                              *)
C27_PacketizationTerminates ==
    (str.pc = "chunk" /\ str.num_samples > 0) ~> (str.pc = "loop")


(* the positions of streaming_thread from iio_buffer_refill (line 667) to  *)
(* the end of the packetize loop, where the handle is in use               *)
UsesBuffer == {"refill", "rf_lock", "rf_count", "rf_unlock", "hl_lock", "hl_test",
               "hl_clock", "hl_rate", "hl_cunlock", "hl_calc", "hl_unlock", "hl_done",
               "chunk", "dp_block", "dp_send", "dp_bunlock", "dp_clock", "dp_count",
               "dp_cunlock"}

(* C28: capture-buffer lifecycle.  The handle is open wherever it is used; *)
(* a thread that has returned leaves no open handle behind; and the        *)
(* iio_buffer_destroy of line 764 is never reached with the NULL handle    *)
(* that a failed re-creation leaves.                                       *)
C28_BufferLifecycle ==
    /\ str.pc \in UsesBuffer => rxbuf = "open"
    /\ str.pc = "exit" => rxbuf \in {"none", "destroyed"}
    /\ str.pc \in {"exit", "crashed"} => rxbuf # "null"


(* C29: a refused data packet.  In a pass of the packetize loop in which   *)
(* encode_data_packet sets the length to 0, the packet counter stays as it *)
(* was, nothing is handed to broadcast_to_subscribers, and neither         *)
(* packets_sent nor packets_since_context grows.                           *)
C29_RefusedChunk ==
    [][ (str.pc = "chunk" /\ str'.pc = "chunk" /\ str'.offset > str.offset
           /\ str'.packet_len = 0) =>
            /\ str'.packet_count = str.packet_count
            /\ sent' = sent
            /\ g_stats'.packets_sent = g_stats.packets_sent
            /\ str'.packets_since_context = str.packets_since_context
      ]_vars

=============================================================================
